---- MODULE Spec2Model ----
(***************************************************************************)
(* A model of rs-lox: the open-addressed Table, the GC string interner,   *)
(* the Chunk with its run-length line index, the Scanner, the single-pass *)
(* Compiler and the stack VM.                                             *)
(*                                                                         *)
(* Strings are sequences of one-character strings.  A raw pointer is a    *)
(* natural number (0 is null).  A u32 hash is a pair <<hi, lo>> of 16-bit *)
(* halves, so that the wrapping multiplication stays inside TLC's ints.   *)
(***************************************************************************)
EXTENDS Integers, Sequences, FiniteSets, TLC

VARIABLES
    \* ---- Table harness (table.rs, mod tests) ----
    table,      \* the Table<T> under test
    refmap,     \* ghost: key pointer -> last value set, or Absent
    \* ---- GC harness (gc.rs) ----
    gc,         \* the GC: objs (heap cells), refs (list head), strings (Table)
    allocLog,   \* ghost: the alloc_string calls of the harness and the VM so far,
                \* <<content, handle>>
    \* ---- Chunk (chunk.rs) ----
    chunk,      \* the Chunk: code, constants, lines
    refLog,     \* ghost: the ref_const calls so far
    addLog,     \* ghost: the add_const calls so far
    \* ---- VM (vm.rs) ----
    vm,         \* the VM: ip, stack, stack_top, globals, and what run() has
                \* written to stdout and returned
    bound,      \* ghost: name content -> the value DefineGlobal last stored
    \* ---- Compiler (compiler.rs, scanner.rs) ----
    comp,       \* the Compiler inside compile(), and how compile() returned
    stmtEnds,   \* ghost: the code offsets at which a declaration ended
    \* ---- Rle harness (rle.rs, mod tests) ----
    rle,        \* the Rle<T> under test
    pushLog     \* ghost: the values of the push calls so far, in order

tableVars == <<table, refmap>>
gcVars == <<gc, allocLog>>
chunkVars == <<chunk, refLog, addLog>>
vmVars == <<vm, bound>>
compVars == <<comp, stmtEnds>>
rleVars == <<rle, pushLog>>
vars == <<table, refmap, gc, allocLog, chunk, refLog, addLog, vm, bound, comp, stmtEnds,
          rle, pushLog>>

(***************************************************************************)
(* Characters and bytes                                                    *)
(***************************************************************************)
\* The byte of an ASCII character (s.as_bytes()); the grave accent, which the
\* module cannot spell as a string, holds its place in the table by name.
ByteOf(c) ==
    LET AsciiPrintable ==
          <<" ", "!", "\"", "#", "$", "%", "&", "'", "(", ")", "*", "+", ",", "-", ".", "/",
            "0", "1", "2", "3", "4", "5", "6", "7", "8", "9", ":", ";", "<", "=", ">", "?",
            "@", "A", "B", "C", "D", "E", "F", "G", "H", "I", "J", "K", "L", "M", "N", "O",
            "P", "Q", "R", "S", "T", "U", "V", "W", "X", "Y", "Z", "[", "\\", "]", "^", "_",
            "GRAVE", "a", "b", "c", "d", "e", "f", "g", "h", "i", "j", "k", "l", "m", "n", "o",
            "p", "q", "r", "s", "t", "u", "v", "w", "x", "y", "z", "{", "|", "}", "~">>
    IN  IF c = "\n" THEN 10
        ELSE IF c = "\t" THEN 9
        ELSE IF c = "\r" THEN 13
        ELSE 31 + (CHOOSE i \in 1..Len(AsciiPrintable) : AsciiPrintable[i] = c)

RECURSIVE XorBits(_, _, _)
\* a ^ b on the low n bits.
XorBits(a, b, n) ==
    IF n = 0 THEN 0
    ELSE (((a % 2) + (b % 2)) % 2) + 2 * XorBits(a \div 2, b \div 2, n - 1)

(***************************************************************************)
(* gc.rs: ObjString and the FNV-1a hash                                    *)
(***************************************************************************)
RECURSIVE HashFrom(_, _, _)
\* The loop of hash_string from character i on, h the hash so far:
\* h ^= c as u32 changes only the low byte of h, and h.wrapping_mul(16777619)
\* is computed on the halves, 16777619 being 2^24 + 403.
HashFrom(h, s, i) ==
    IF i > Len(s) THEN h
    ELSE LET lo == (h[2] - (h[2] % 256)) + XorBits(h[2] % 256, ByteOf(s[i]), 8)
             lo403 == lo * 403
             hi403 == h[1] * 403
         IN  HashFrom(<<(hi403 + (lo403 \div 65536) + (lo % 256) * 256) % 65536,
                        lo403 % 65536>>, s, i + 1)

\* hash_string: FNV-1a from the offset basis 2166136261u32 = 0x811C9DC5.
hash_string(s) == HashFrom(<<33052, 40389>>, s, 1)


\* ObjString::new
ObjStringNew(value) == [value |-> value, hash |-> hash_string(value)]

\* `hash as usize % cap`; cap is 8 * 2^k <= 65536 and so divides 2^16:
\* the remainder is that of the low half.
HashMod(h, cap) == h[2] % cap

(***************************************************************************)
(* table.rs: Entry, Table, get_entry, adjust_capacity, set/get/find/delete *)
(***************************************************************************)
EmptyEntry == [kind |-> "Empty"]
TombstoneEntry(k) == [kind |-> "Tombstone", key |-> k]
DataEntry(k, v) == [kind |-> "Data", key |-> k, value |-> v]

\* Option<&T>
None == [some |-> FALSE]
Some(v) == [some |-> TRUE, value |-> v]

\* Outcomes of get_entry other than a bucket index.
ProbePanic == -1        \* `% cap` with cap = 0: division by zero panics
ProbeNoHalt == -2       \* no Empty bucket and no match: the loop never ends

\* Table::new
TableNew == [entries |-> <<>>, cap |-> 0, len |-> 0]

RECURSIVE ProbeLoopStopAtTombstone(_, _, _, _, _)
\* Mutant of the loop of get_entry: a Tombstone ends the probe like an Empty
\* bucket does.
ProbeLoopStopAtTombstone(entries, cap, key, index, steps) ==
    IF steps >= cap THEN ProbeNoHalt
    ELSE
      LET entry == entries[index] IN
      IF entry.kind = "Data" /\ entry.key # key
      THEN ProbeLoopStopAtTombstone(entries, cap, key, (index + 1) % cap, steps + 1)
      ELSE index

get_entry_stop_at_tombstone(entries, cap, key, mem) ==
    IF cap = 0 THEN ProbePanic
    ELSE ProbeLoopStopAtTombstone(entries, cap, key, HashMod(mem[key].hash, cap), 0)

RECURSIVE ProbeLoop(_, _, _, _, _, _)
\* The loop of get_entry.  `tombstone` is -1 for null_mut().  After cap
\* iterations without a return the loop repeats itself for ever.
ProbeLoop(entries, cap, key, index, tombstone, steps) ==
    IF steps >= cap THEN ProbeNoHalt
    ELSE
      LET entry == entries[index] IN
      CASE entry.kind = "Empty" ->
             IF tombstone = -1 THEN index ELSE tombstone
        [] entry.kind = "Tombstone" ->
             ProbeLoop(entries, cap, key, (index + 1) % cap,
                       IF tombstone = -1 THEN index ELSE tombstone, steps + 1)
        [] entry.kind = "Data" ->
             IF entry.key = key
             THEN index
             ELSE ProbeLoop(entries, cap, key, (index + 1) % cap, tombstone, steps + 1)

\* get_entry(ptr, cap, key): the index of the bucket found.  `mem` is the
\* memory the key pointers point into (pointer -> ObjString).
get_entry(entries, cap, key, mem) ==
    IF cap = 0 THEN ProbePanic
    ELSE ProbeLoop(entries, cap, key, HashMod(mem[key].hash, cap), -1, 0)

\* Mutant of grow_capacity: the capacity is doubled whatever it is.
grow_capacity_double(cap) == cap * 2

\* grow_capacity
grow_capacity(cap) == IF cap < 8 THEN 8 ELSE cap * 2

\* (self.cap as f64 * TABLE_MAX_LOAD) as usize, TABLE_MAX_LOAD = 0.75
MaxLoad(cap) == (cap * 3) \div 4

RECURSIVE RehashFrom(_, _, _, _, _)
\* The copy loop of adjust_capacity: old buckets i.. into `acc`.
RehashFrom(old, i, acc, new_cap, mem) ==
    IF i >= old.cap THEN acc
    ELSE
      LET entry == old.entries[i] IN
      IF entry.kind = "Data"
      THEN LET dest == get_entry(acc.entries, new_cap, entry.key, mem)
           IN  RehashFrom(old, i + 1,
                          [acc EXCEPT !.entries[dest] = DataEntry(entry.key, entry.value),
                                      !.len = acc.len + 1],
                          new_cap, mem)
      ELSE RehashFrom(old, i + 1, acc, new_cap, mem)

\* Mutant of adjust_capacity: len is not reset before the copy loop.
adjust_capacity_keep_len(t, new_cap, mem) ==
    RehashFrom(t, 0,
               [entries |-> [i \in 0..(new_cap - 1) |-> EmptyEntry],
                cap |-> new_cap, len |-> t.len],
               new_cap, mem)

\* Table::adjust_capacity
adjust_capacity(t, new_cap, mem) ==
    RehashFrom(t, 0,
               [entries |-> [i \in 0..(new_cap - 1) |-> EmptyEntry],
                cap |-> new_cap, len |-> 0],
               new_cap, mem)

\* Mutant of Table::set: a reused tombstone counts as the key having been
\* present (the result is true for an Empty bucket only).
TableSetTombstonePresent(t, key, value, mem) ==
    LET grown == IF t.len + 1 > MaxLoad(t.cap)
                 THEN adjust_capacity(t, grow_capacity(t.cap), mem)
                 ELSE t
        entry == get_entry(grown.entries, grown.cap, key, mem)
        kind  == grown.entries[entry].kind
    IN  [table |-> [grown EXCEPT !.entries[entry] = DataEntry(key, value),
                                 !.len = IF kind = "Empty" THEN grown.len + 1
                                         ELSE grown.len],
         result |-> (kind = "Empty")]

\* Table::set: [table |-> the table afterwards, result |-> the bool returned]
TableSet(t, key, value, mem) ==
    LET grown == IF t.len + 1 > MaxLoad(t.cap)
                 THEN adjust_capacity(t, grow_capacity(t.cap), mem)
                 ELSE t
        entry == get_entry(grown.entries, grown.cap, key, mem)
        kind  == grown.entries[entry].kind
    IN  [table |-> [grown EXCEPT !.entries[entry] = DataEntry(key, value),
                                 !.len = IF kind = "Empty" THEN grown.len + 1
                                         ELSE grown.len],
         result |-> (kind # "Data")]

\* Table::get
TableGet(t, key, mem) ==
    IF t.len = 0 THEN None
    ELSE LET entry == t.entries[get_entry(t.entries, t.cap, key, mem)]
         IN  IF entry.kind = "Data" THEN Some(entry.value) ELSE None

RECURSIVE FindLoop(_, _, _, _, _)
\* The loop of Table::find: keys compare by content (value and hash).
FindLoop(t, find_key, index, steps, mem) ==
    IF steps >= t.cap THEN [some |-> FALSE, nohalt |-> TRUE]
    ELSE
      LET entry == t.entries[index] IN
      CASE entry.kind = "Data" ->
             IF mem[entry.key] = find_key
             THEN Some(entry.value)
             ELSE FindLoop(t, find_key, (index + 1) % t.cap, steps + 1, mem)
        [] entry.kind = "Empty" -> None
        [] entry.kind = "Tombstone" ->
             FindLoop(t, find_key, (index + 1) % t.cap, steps + 1, mem)

\* Mutant of Table::find: only the home bucket is looked at, no linear probe.
TableFindHomeOnly(t, find_key, mem) ==
    IF t.len = 0 THEN None
    ELSE LET entry == t.entries[HashMod(find_key.hash, t.cap)]
         IN  IF entry.kind = "Data" /\ mem[entry.key] = find_key
             THEN Some(entry.value) ELSE None

\* Table::find
TableFind(t, find_key, mem) ==
    IF t.len = 0 THEN None
    ELSE FindLoop(t, find_key, HashMod(find_key.hash, t.cap), 0, mem)

\* Mutant of Table::delete: the bucket found becomes a tombstone whatever
\* it held.
TableDeleteAnyBucket(t, key, mem) ==
    IF t.len = 0 THEN [table |-> t, result |-> FALSE]
    ELSE LET entry == get_entry(t.entries, t.cap, key, mem)
         IN  [table |-> [t EXCEPT !.entries[entry] = TombstoneEntry(key)],
              result |-> t.entries[entry].kind = "Data"]

\* Mutant of Table::delete: len is decremented for the entry deleted.
TableDeleteDecrement(t, key, mem) ==
    IF t.len = 0 THEN [table |-> t, result |-> FALSE]
    ELSE LET entry == get_entry(t.entries, t.cap, key, mem)
         IN  IF t.entries[entry].kind = "Data"
             THEN [table |-> [t EXCEPT !.entries[entry] = TombstoneEntry(key),
                                       !.len = t.len - 1],
                   result |-> TRUE]
             ELSE [table |-> t, result |-> FALSE]

\* Table::delete: [table, result]
TableDelete(t, key, mem) ==
    IF t.len = 0 THEN [table |-> t, result |-> FALSE]
    ELSE LET entry == get_entry(t.entries, t.cap, key, mem)
         IN  IF t.entries[entry].kind = "Data"
             THEN [table |-> [t EXCEPT !.entries[entry] = TombstoneEntry(key)],
                   result |-> TRUE]
             ELSE [table |-> t, result |-> FALSE]

(***************************************************************************)
(* gc.rs: the heap list and the string interner                            *)
(***************************************************************************)
\* GC::new
GCNew == [objs |-> <<>>, refs |-> 0, strings |-> TableNew]

\* The ObjString each heap cell holds: what a key pointer of gc.strings
\* points at.
HeapStrings(g) == [p \in DOMAIN g.objs |-> g.objs[p].value]

\* Mutant of alloc_inner: the new cell is not linked to the list (next is
\* null).
alloc_inner_unlinked(g, value) ==
    [g EXCEPT !.objs = Append(g.objs, [value |-> value, next |-> 0]),
              !.refs = Len(g.objs) + 1]

\* GC::alloc_inner: Box::into_raw of a new cell, linked in front of refs.
\* The new cell's address is the next unused one.
alloc_inner(g, value) ==
    [g EXCEPT !.objs = Append(g.objs, [value |-> value, next |-> g.refs]),
              !.refs = Len(g.objs) + 1]

\* Variant of alloc_string that does not look for an interned string.
alloc_string_fresh(g, value) ==
    LET g1 == alloc_inner(g, ObjStringNew(value))
    IN  [gc |-> [g1 EXCEPT !.strings =
                    TableSet(g1.strings, g1.refs, g1.refs, HeapStrings(g1)).table],
         ref |-> g1.refs]

\* GC::alloc_string: [gc |-> the GC afterwards, ref |-> the ObjRef returned]
alloc_string(g, value) ==
    LET obj_string == ObjStringNew(value)
        interned == TableFind(g.strings, obj_string, HeapStrings(g))
    IN  IF interned.some
        THEN [gc |-> g, ref |-> interned.value]
        ELSE LET g1 == alloc_inner(g, obj_string)
                 new_inner == g1.refs
             IN  [gc |-> [g1 EXCEPT !.strings =
                            TableSet(g1.strings, new_inner, new_inner,
                                     HeapStrings(g1)).table],
                  ref |-> new_inner]

(***************************************************************************)
(* value.rs: Value.  The f32 of a Number is a fraction <<p, q>> in lowest  *)
(* terms with q > 0, or <<1, 0>> (inf), <<-1, 0>> (-inf), <<0, 0>> (NaN).  *)
(* Rounding and the sign of zero are not represented.                      *)
(***************************************************************************)
Nil == [kind |-> "Nil"]
Number(n) == [kind |-> "Number", n |-> n]
Boolean(b) == [kind |-> "Boolean", b |-> b]
Object(ptr) == [kind |-> "Object", ptr |-> ptr]

NaN == <<0, 0>>

\* The f32 of the fraction p / q, q # 0.
Frac(p, q) ==
    LET RECURSIVE Gcd(_, _)
        Gcd(a, b) == IF b = 0 THEN a ELSE Gcd(b, a % b)
        absp == IF p < 0 THEN -p ELSE p
        absq == IF q < 0 THEN -q ELSE q
        g == Gcd(absp, absq)
    IN  <<((IF q < 0 THEN -1 ELSE 1) * p) \div g, absq \div g>>

\* f32 ==
NumEq(a, b) == a # NaN /\ b # NaN /\ a = b

\* f32 <
NumLt(a, b) ==
    /\ a # NaN /\ b # NaN /\ a # b
    /\ IF a[2] = 0 THEN a[1] < 0
       ELSE IF b[2] = 0 THEN b[1] > 0
       ELSE a[1] * b[2] < b[1] * a[2]

\* f32 +, -, *, / and unary - (op is the opcode's name; Negate ignores b)
NumArith(op, a, b) ==
    LET Sign(n) == IF n > 0 THEN 1 ELSE IF n < 0 THEN -1 ELSE 0
        IsInf(x) == x[2] = 0 /\ x[1] # 0
        Neg(x) == <<-x[1], x[2]>>
        Plus(x, y) ==
            IF IsInf(x) THEN (IF IsInf(y) /\ y # x THEN NaN ELSE x)
            ELSE IF IsInf(y) THEN y
            ELSE Frac(x[1] * y[2] + y[1] * x[2], x[2] * y[2])
    IN  IF a = NaN \/ (op # "Negate" /\ b = NaN) THEN NaN
        ELSE CASE op = "Negate" -> Neg(a)
               [] op = "Add" -> Plus(a, b)
               [] op = "Subtract" -> Plus(a, Neg(b))
               [] op = "Multiply" ->
                    IF IsInf(a) \/ IsInf(b) THEN <<Sign(a[1]) * Sign(b[1]), 0>>
                    ELSE Frac(a[1] * b[1], a[2] * b[2])
               [] op = "Divide" ->
                    IF IsInf(a) /\ IsInf(b) THEN NaN
                    ELSE IF IsInf(a) THEN <<a[1] * (IF b[1] < 0 THEN -1 ELSE 1), 0>>
                    ELSE IF IsInf(b) THEN <<0, 1>>
                    ELSE IF b[1] = 0 THEN <<Sign(a[1]), 0>>
                    ELSE Frac(a[1] * b[2], a[2] * b[1])

\* is_falsey
is_falsey(value) ==
    value = Nil \/ value = Boolean(FALSE)

\* are_equal
are_equal(a, b) ==
    CASE a.kind = "Nil" /\ b.kind = "Nil" -> TRUE
      [] a.kind = "Number" /\ b.kind = "Number" -> NumEq(a.n, b.n)
      [] a.kind = "Boolean" /\ b.kind = "Boolean" -> a.b = b.b
      [] OTHER -> FALSE

(***************************************************************************)
(* rle.rs: the run-length line index                                       *)
(***************************************************************************)
\* Rle::new
RleNew == [data |-> <<>>, last_value |-> None]

\* Mutant of push: a value joins the last run whatever it is.
RlePushJoin(r, value) ==
    IF r.last_value.some
    THEN [r EXCEPT !.data[Len(r.data)].count = @ + 1]
    ELSE [data |-> Append(r.data, [value |-> value, count |-> 1]),
          last_value |-> Some(value)]

\* Rle::push
RlePush(r, value) ==
    IF r.last_value.some /\ r.last_value.value = value
    THEN [r EXCEPT !.data[Len(r.data)].count = @ + 1]
    ELSE [data |-> Append(r.data, [value |-> value, count |-> 1]),
          last_value |-> Some(value)]

RECURSIVE RleGetFrom(_, _, _, _)
\* The loop of Rle::get over the nodes n.., `skipped` entries passed.
RleGetFrom(r, index, n, skipped) ==
    IF n > Len(r.data) THEN None
    ELSE IF skipped + r.data[n].count > index
         THEN Some(r.data[n].value)
         ELSE RleGetFrom(r, index, n + 1, skipped + r.data[n].count)

\* Rle::get
RleGet(r, index) == RleGetFrom(r, index, 1, 0)

RECURSIVE RleLenFrom(_, _)
\* The logical length: the sum of the run lengths.
RleLenFrom(r, n) ==
    IF n > Len(r.data) THEN 0 ELSE r.data[n].count + RleLenFrom(r, n + 1)
RleLen(r) == RleLenFrom(r, 1)

(***************************************************************************)
(* chunk.rs: OpCode and Chunk                                              *)
(***************************************************************************)
\* enum OpCode, in declaration order: `op as u8` is the position less one.
OpCodes ==
    <<"Return", "Constant", "ConstantLong", "Nil", "True", "False", "Pop",
      "Get", "GetLong", "DefineGlobal", "DefineGlobalLong", "Equal", "Greater",
      "Less", "Add", "Subtract", "Multiply", "Divide", "Not", "Negate", "Print">>

\* op as u8
OpByte(op) == (CHOOSE i \in 1..Len(OpCodes) : OpCodes[i] = op) - 1

\* Mutant of from_u8: byte 7 is no opcode and Get .. Add come one later.
OpFromU8Reserved(b) ==
    IF b = 7 \/ b >= Len(OpCodes) THEN None
    ELSE IF b < 7 \/ b > 15 THEN Some(OpCodes[b + 1])
    ELSE Some(OpCodes[b])

\* FromPrimitive::from_u8
OpFromU8(b) == IF b < Len(OpCodes) THEN Some(OpCodes[b + 1]) ELSE None

\* Chunk::new
ChunkNew == [code |-> <<>>, constants |-> <<>>, lines |-> RleNew]

\* Variant of write_short that records the line once for its two bytes.
write_short_one_line(c, value, line) ==
    [c EXCEPT !.code = c.code \o <<value \div 256, value % 256>>,
              !.lines = RlePush(c.lines, line)]

\* Variant of write_short that writes the low byte first.
write_short_low_first(c, value, line) ==
    [c EXCEPT !.code = c.code \o <<value % 256, value \div 256>>,
              !.lines = RlePush(RlePush(c.lines, line), line)]

\* Chunk::write_byte
write_byte(c, op, line) ==
    [c EXCEPT !.code = Append(c.code, op), !.lines = RlePush(c.lines, line)]

\* Chunk::write_opcode
write_opcode(c, op, line) == write_byte(c, OpByte(op), line)

\* Chunk::write_short: value.to_be_bytes()
write_short(c, value, line) ==
    [c EXCEPT !.code = c.code \o <<value \div 256, value % 256>>,
              !.lines = RlePush(RlePush(c.lines, line), line)]

\* Chunk::read_byte (index counts from 0)
chunk_read_byte(c, index) ==
    IF index < Len(c.code) THEN Some(c.code[index + 1]) ELSE None

\* Chunk::read_short: u16::from_be_bytes
chunk_read_short(c, index) ==
    IF index + 1 < Len(c.code)
    THEN Some(c.code[index + 1] * 256 + c.code[index + 2])
    ELSE None

\* Chunk::get_line
get_line(c, offset) == RleGet(c.lines, offset)

\* Chunk::add_const: [chunk, index returned]
add_const(c, value) ==
    [chunk |-> [c EXCEPT !.constants = Append(c.constants, value)],
     index |-> Len(c.constants)]

\* Mutant of ref_const: an index that does not fit u16 is cut to 16 bits.
ref_const_truncating(c, const_ref, byte_op, long_op, line) ==
    IF const_ref <= 255
    THEN [chunk |-> write_byte(write_opcode(c, byte_op, line), const_ref, line),
          panic |-> FALSE]
    ELSE [chunk |-> write_short(write_opcode(c, long_op, line), const_ref % 65536, line),
          panic |-> FALSE]

\* Chunk::ref_const: [chunk, panic]
ref_const(c, const_ref, byte_op, long_op, line) ==
    IF const_ref <= 255
    THEN [chunk |-> write_byte(write_opcode(c, byte_op, line), const_ref, line),
          panic |-> FALSE]
    ELSE IF const_ref <= 65535
    THEN [chunk |-> write_short(write_opcode(c, long_op, line), const_ref, line),
          panic |-> FALSE]
    ELSE [chunk |-> c, panic |-> TRUE]

\* Chunk::get_constant: None stands for the panic on an index out of range.
get_constant(c, offset) ==
    IF offset < Len(c.constants) THEN Some(c.constants[offset + 1]) ELSE None

(***************************************************************************)
(* debug.rs: the disassembler's walk over the instructions of a chunk.     *)
(* Only the offsets are kept; the description text is not modelled.        *)
(***************************************************************************)
\* disassemble_instruction: the offset of the next instruction, None where
\* the byte or the operand cannot be read.  An unknown byte is one wide.
disassemble_instruction(c, offset) ==
    LET byte == chunk_read_byte(c, offset)
        op == OpFromU8(byte.value)
    IN  IF ~byte.some THEN None
        ELSE IF ~op.some THEN Some(offset + 1)
        ELSE IF op.value \in {"Constant", "Get", "DefineGlobal"}
        THEN IF offset + 1 < Len(c.code) THEN Some(offset + 2) ELSE None
        ELSE IF op.value \in {"ConstantLong", "GetLong", "DefineGlobalLong"}
        THEN IF chunk_read_short(c, offset + 1).some THEN Some(offset + 3)
             ELSE None
        ELSE Some(offset + 1)

\* The loop of disassemble_chunk run for 2^k instructions from `offset`:
\* where it stands afterwards, -1 once it has ended (offset at the end of
\* the code, or None from disassemble_instruction).
RECURSIVE disassemble_after(_, _, _)
disassemble_after(c, offset, k) ==
    IF offset = -1 \/ offset >= Len(c.code) THEN -1
    ELSE IF k = 0
    THEN LET instr_result == disassemble_instruction(c, offset)
         IN  IF instr_result.some THEN instr_result.value ELSE -1
    ELSE disassemble_after(c, disassemble_after(c, offset, k - 1), k - 1)

\* The offsets at which these 2^k turns of the loop decode an instruction.
RECURSIVE disassemble_offsets(_, _, _)
disassemble_offsets(c, offset, k) ==
    IF offset = -1 \/ offset >= Len(c.code) THEN {}
    ELSE IF k = 0
    THEN IF disassemble_instruction(c, offset).some THEN {offset} ELSE {}
    ELSE disassemble_offsets(c, offset, k - 1)
         \cup disassemble_offsets(c, disassemble_after(c, offset, k - 1), k - 1)

\* disassemble_chunk: the offsets at which it decodes an instruction.  The
\* loop makes at most one turn per byte; it is evaluated in halves.
disassemble_chunk(c) ==
    disassemble_offsets(c, 0, CHOOSE k \in 0..Len(c.code) :
                                  /\ 2 ^ k >= Len(c.code)
                                  /\ \A j \in 0..(k - 1) : 2 ^ j < Len(c.code))

(***************************************************************************)
(* vm.rs: the VM.  vm.stack is the array of STACK_MAX slots (slot i of the *)
(* code is stack[i + 1]); vm.out is what was written to config.stdout, one *)
(* entry per write, and vm.result is what run() returned, "Running" until  *)
(* it returns.  A format!/write! is kept as [fmt, args], the arguments     *)
(* being the Display texts.  The VMConfig is that of the tests: both trace *)
(* flags off, and a stdout that never fails.                               *)
(***************************************************************************)
STACK_MAX == 256

RECURSIVE Digits(_)
\* Display of an unsigned integer.
Digits(n) ==
    LET d == <<"0", "1", "2", "3", "4", "5", "6", "7", "8", "9">>[(n % 10) + 1]
    IN  IF n < 10 THEN <<d>> ELSE Append(Digits(n \div 10), d)

\* impl Display for Value, mem the heap's strings.  A Number whose decimal
\* expansion ends within seven places is written in full; any other finite
\* one is written p/q, the model not rounding as f32 does.
Display(value, mem) ==
    LET RECURSIVE Places(_, _, _)
        Places(r, q, k) ==
            IF r = 0 THEN <<>>
            ELSE IF k = 0 THEN <<"/">>
            ELSE LET rest == Places((r * 10) % q, q, k - 1)
                 IN  IF rest = <<"/">> THEN rest
                     ELSE <<Digits((r * 10) \div q)[1]>> \o rest
        NumberText(n) ==
            LET absp == IF n[1] < 0 THEN -n[1] ELSE n[1]
                sign == IF n[1] < 0 THEN <<"-">> ELSE <<>>
                places == Places(absp % n[2], n[2], 7)
            IN  IF n = NaN THEN <<"N", "a", "N">>
                ELSE IF n[2] = 0 THEN sign \o <<"i", "n", "f">>
                ELSE IF places = <<>> THEN sign \o Digits(absp \div n[2])
                ELSE IF places = <<"/">> THEN sign \o Digits(absp) \o places \o Digits(n[2])
                ELSE sign \o Digits(absp \div n[2]) \o <<".">> \o places
    IN  CASE value.kind = "Nil" -> <<"n", "i", "l">>
          [] value.kind = "Number" -> NumberText(value.n)
          [] value.kind = "Boolean" ->
               IF value.b THEN <<"t", "r", "u", "e">> ELSE <<"f", "a", "l", "s", "e">>
          [] value.kind = "Object" -> <<"\"">> \o mem[value.ptr].value \o <<"\"">>

\* InterpreterError::RuntimeError(format!(fmt, args))
RuntimeError(fmt, args) == [state |-> "RuntimeError", fmt |-> fmt, args |-> args]

\* VM::new
VMNew ==
    [ip |-> 0, stack |-> [i \in 1..STACK_MAX |-> Nil], stack_top |-> 0,
     globals |-> TableNew, out |-> <<>>, result |-> [state |-> "Running"]]

\* Variant of stack_push that lets a push through at stack_top = STACK_MAX.
stack_push_one_more(v, value) ==
    IF v.stack_top > STACK_MAX
    THEN [ok |-> FALSE, vm |-> v, err |-> RuntimeError("Stack overflow", <<>>)]
    ELSE [ok |-> TRUE,
          vm |-> [v EXCEPT !.stack = [i \in 1..STACK_MAX |->
                                         IF i = v.stack_top + 1 THEN value ELSE @[i]],
                           !.stack_top = v.stack_top + 1]]

\* VM::stack_push: [ok, vm afterwards, err]
stack_push(v, value) ==
    IF v.stack_top = STACK_MAX
    THEN [ok |-> FALSE, vm |-> v, err |-> RuntimeError("Stack overflow", <<>>)]
    ELSE [ok |-> TRUE,
          vm |-> [v EXCEPT !.stack[v.stack_top + 1] = value,
                           !.stack_top = v.stack_top + 1]]

\* VM::stack_pop: [ok, vm afterwards, value, err]
stack_pop(v) ==
    IF v.stack_top = 0
    THEN [ok |-> FALSE, vm |-> v, err |-> RuntimeError("Stack underflow", <<>>)]
    ELSE [ok |-> TRUE, vm |-> [v EXCEPT !.stack_top = v.stack_top - 1],
          value |-> v.stack[v.stack_top]]

\* Variant of stack_pop_binary that hands the two operands over in the order
\* they were popped.
stack_pop_binary_swapped(v) ==
    LET pb == stack_pop(v)
        pa == stack_pop(pb.vm)
    IN  IF ~pb.ok THEN pb
        ELSE IF ~pa.ok THEN pa
        ELSE [ok |-> TRUE, vm |-> pa.vm, a |-> pb.value, b |-> pa.value]

\* VM::stack_pop_binary: [ok, vm afterwards, a, b, err]
stack_pop_binary(v) ==
    LET pb == stack_pop(v)
        pa == stack_pop(pb.vm)
    IN  IF ~pb.ok THEN pb
        ELSE IF ~pa.ok THEN pa
        ELSE [ok |-> TRUE, vm |-> pa.vm, a |-> pa.value, b |-> pb.value]

\* Mutant of VM::read_byte: ip is left where it was after a successful read.
read_byte_in_place(c, ip) ==
    LET b == chunk_read_byte(c, ip)
    IN  IF b.some THEN [ok |-> TRUE, value |-> b.value, ip |-> ip]
        ELSE [ok |-> FALSE, ip |-> ip,
              err |-> RuntimeError("Read byte out of bounds", <<>>)]

\* VM::read_byte: [ok, value, ip afterwards, err]
read_byte(c, ip) ==
    LET b == chunk_read_byte(c, ip)
    IN  IF b.some THEN [ok |-> TRUE, value |-> b.value, ip |-> ip + 1]
        ELSE [ok |-> FALSE, ip |-> ip,
              err |-> RuntimeError("Read byte out of bounds", <<>>)]

\* Mutant of VM::read_short: a failed read reports the error of read_byte.
read_short_byte_error(c, ip) ==
    LET sh == chunk_read_short(c, ip)
    IN  IF sh.some THEN [ok |-> TRUE, value |-> sh.value, ip |-> ip + 2]
        ELSE [ok |-> FALSE, ip |-> ip,
              err |-> RuntimeError("Read byte out of bounds", <<>>)]

\* VM::read_short
read_short(c, ip) ==
    LET sh == chunk_read_short(c, ip)
    IN  IF sh.some THEN [ok |-> TRUE, value |-> sh.value, ip |-> ip + 2]
        ELSE [ok |-> FALSE, ip |-> ip,
              err |-> RuntimeError("Read short out of bounds", <<>>)]

\* VM::read_constant; the value is None where get_constant panics.
read_constant(c, ip) ==
    LET b == read_byte(c, ip)
    IN  IF b.ok THEN [b EXCEPT !.value = get_constant(c, b.value)] ELSE b

\* VM::read_constant_long
read_constant_long(c, ip) ==
    LET sh == read_short(c, ip)
    IN  IF sh.ok THEN [sh EXCEPT !.value = get_constant(c, sh.value)] ELSE sh

\* #[derive(PartialOrd)] on Value: the variants order as declared (Nil,
\* Number, Boolean, Object) and two of one variant by their payload.  Two
\* distinct handles order by address, which the allocator decides: `below`
\* says whether a's cell lies below b's.
partial_cmp(a, b, below) ==
    LET rank(x) == CASE x.kind = "Nil" -> 0 [] x.kind = "Number" -> 1
                     [] x.kind = "Boolean" -> 2 [] x.kind = "Object" -> 3
    IN  IF rank(a) # rank(b)
        THEN (IF rank(a) < rank(b) THEN "Less" ELSE "Greater")
        ELSE CASE a.kind = "Nil" -> "Equal"
               [] a.kind = "Number" ->
                    IF NumLt(a.n, b.n) THEN "Less"
                    ELSE IF NumLt(b.n, a.n) THEN "Greater"
                    ELSE IF NumEq(a.n, b.n) THEN "Equal" ELSE "None"
               [] a.kind = "Boolean" ->
                    IF a.b = b.b THEN "Equal" ELSE IF b.b THEN "Less" ELSE "Greater"
               [] a.kind = "Object" ->
                    IF a.ptr = b.ptr THEN "Equal" ELSE IF below THEN "Less" ELSE "Greater"

(***************************************************************************)
(* scanner.rs.  The source is a sequence of characters; positions count   *)
(* from 0 as in the code, so the character at position i is src[i + 1].    *)
(* The code reads a character by its index (chars().nth) and cuts a lexeme *)
(* by byte offsets (&input[a..b]) with the same numbers; the two agree as  *)
(* long as the characters before are ASCII.  The character written         *)
(* "EACUTE" stands for U+00E9, two bytes wide in UTF-8.  A token is        *)
(* [kind, lexeme, line]; the lexeme of an Error token is its message, kept *)
(* as a one-element sequence.  Where the slice panics, scan does not       *)
(* return: the outcome is written as a token of kind "Panic", after which  *)
(* no caller goes on.  Line numbers are i16 in the code; the sources here  *)
(* stay far below its range.                                               *)
(***************************************************************************)
\* char::len_utf8 for the characters of the sources
len_utf8(c) == IF c = "EACUTE" THEN 2 ELSE 1

is_digit(c) == len_utf8(c) = 1 /\ ByteOf(c) \in 48..57

is_alpha(c) == len_utf8(c) = 1 /\ ByteOf(c) \in (97..122) \cup (65..90) \cup {95}

\* &self.input[a..b]: the slice of the UTF-8 text between two byte offsets,
\* a panic where one of them is not on a character boundary or out of order.
str_slice(src, a, b) ==
    LET wide == {j \in 1..Len(src) : len_utf8(src[j]) = 2}
        offset(i) == i + Cardinality({j \in wide : j <= i})
        chars(p) == {i \in 0..Len(src) : offset(i) = p}
        cut(from, to) ==
            IF from = {} \/ to = {} \/ a > b THEN [ok |-> FALSE]
            ELSE [ok |-> TRUE,
                  value |-> SubSeq(src, (CHOOSE i \in from : TRUE) + 1,
                                   CHOOSE i \in to : TRUE)]
    IN  IF wide = {} /\ a <= b /\ b <= Len(src)
        THEN [ok |-> TRUE, value |-> SubSeq(src, a + 1, b)]
        ELSE cut(chars(a), chars(b))

\* Scanner::match_while: the position at which it stops, the first from
\* `current` on whose character fails the filter, or the end of input.
match_while(src, current, filter(_)) ==
    LET stops == {i \in current..(Len(src) - 1) : ~filter(src[i + 1])}
    IN  IF stops = {} THEN Len(src)
        ELSE CHOOSE i \in stops : \A j \in stops : i <= j

RECURSIVE skip_whitespace(_, _)
\* Scanner::skip_whitespace: the scanner afterwards.
skip_whitespace(src, sc) ==
    IF sc.current >= Len(src) THEN sc
    ELSE
      LET c == src[sc.current + 1]
          newlines == {i \in sc.current..(Len(src) - 1) : src[i + 1] = "\n"}
      IN  CASE c \in {" ", "\r", "\t"} ->
                 skip_whitespace(src, [sc EXCEPT !.current = @ + 1])
            [] c = "\n" ->
                 skip_whitespace(src, [sc EXCEPT !.line = @ + 1, !.current = @ + 1])
            [] c = "/" ->
                 IF sc.current + 1 < Len(src) /\ src[sc.current + 2] = "/"
                 THEN IF newlines = {}
                      THEN [sc EXCEPT !.current = Len(src)]
                      ELSE skip_whitespace(src,
                             [sc EXCEPT !.line = @ + 1,
                                        !.current = 1 + CHOOSE i \in newlines :
                                                          \A j \in newlines : i <= j])
                 ELSE sc
            [] OTHER -> sc

\* Scanner::identifier_type with check_keyword, for the lexeme
\* src[start..current].  The branches name the check_keyword call they
\* make; `checked` makes it.
identifier_type(src, start, current) ==
    LET matched(sl, call) ==
          IF ~sl.ok THEN "Panic"
          ELSE IF sl.value = call.keyword THEN call.kind ELSE "Identifier"
        checked(call) ==
          IF ~call.check THEN "Identifier"
          ELSE matched(str_slice(src, start + call.start, current), call)
        check_keyword(n, keyword, kind) ==
          [check |-> TRUE, start |-> n, keyword |-> keyword, kind |-> kind]
        plain == [check |-> FALSE]
        first == src[start + 1]
        second == src[start + 2]
    IN  checked(
        CASE first = "a" -> check_keyword(1, <<"n", "d">>, "And")
          [] first = "c" -> check_keyword(1, <<"l", "a", "s", "s">>, "Class")
          [] first = "e" -> check_keyword(1, <<"l", "s", "e">>, "Else")
          [] first = "f" ->
               IF current - start > 1
               THEN CASE second = "a" -> check_keyword(2, <<"l", "s", "e">>, "False")
                      [] second = "o" -> check_keyword(2, <<"r">>, "For")
                      [] second = "u" -> check_keyword(2, <<"n">>, "Fun")
                      [] OTHER -> plain
               ELSE plain
          [] first = "i" -> check_keyword(1, <<"f">>, "If")
          [] first = "n" -> check_keyword(1, <<"i", "l">>, "Nil")
          [] first = "o" -> check_keyword(1, <<"r">>, "Or")
          [] first = "p" -> check_keyword(1, <<"r", "i", "n", "t">>, "Print")
          [] first = "r" -> check_keyword(1, <<"e", "t", "u", "r", "n">>, "Return")
          [] first = "t" ->
               IF current - start > 1
               THEN CASE second = "h" -> check_keyword(2, <<"i", "s">>, "This")
                      [] second = "r" -> check_keyword(2, <<"u", "e">>, "True")
                      [] OTHER -> plain
               ELSE plain
          [] first = "s" -> check_keyword(1, <<"u", "p", "e", "r">>, "Super")
          [] first = "v" -> check_keyword(1, <<"a", "r">>, "Var")
          [] first = "w" -> check_keyword(1, <<"h", "i", "l", "e">>, "While")
          [] OTHER -> plain)

\* Scanner::scan: [sc |-> the scanner afterwards, token |-> the token].
\* make_token, error_token, string, number and identifier are the local
\* definitions; `s` is the scanner after the first character of the token.
\* make_token and error_token are the last call of every branch: the
\* branches name the call, and `returned` cuts the lexeme.
scan(src, sc) ==
    LET made(s, kind, sl) ==
            IF sl.ok /\ kind # "Panic"
            THEN [sc |-> s, token |-> [kind |-> kind, lexeme |-> sl.value, line |-> s.line]]
            ELSE [sc |-> s, token |-> [kind |-> "Panic", lexeme |-> <<>>, line |-> s.line]]
        returned(r) ==
            IF r.kind = "Error"
            THEN [sc |-> r.sc,
                  token |-> [kind |-> "Error", lexeme |-> <<r.message>>,
                             line |-> r.sc.line]]
            ELSE made(r.sc, r.kind, str_slice(src, r.sc.start, r.sc.current))
        make_token(s, kind) == [sc |-> s, kind |-> kind]
        error_token(s, message) == [sc |-> s, kind |-> "Error", message |-> message]
        two(s, kind2, kind1) ==
            IF s.current < Len(src) /\ src[s.current + 1] = "="
            THEN make_token([s EXCEPT !.current = @ + 1], kind2)
            ELSE make_token(s, kind1)
        string(s) ==
            LET quotes == {i \in s.current..(Len(src) - 1) : src[i + 1] = "\""}
                closed(stop) ==
                    make_token([s EXCEPT !.current = stop + 1,
                                         !.line = @ + Cardinality(
                                             {i \in s.current..(stop - 1) : src[i + 1] = "\n"})],
                               "String")
            IN  IF quotes = {}
                THEN error_token([s EXCEPT !.current = Len(src),
                                           !.line = @ + Cardinality(
                                               {i \in s.current..(Len(src) - 1) :
                                                   src[i + 1] = "\n"})],
                                 "Unterminated string.")
                ELSE closed(CHOOSE i \in quotes : \A j \in quotes : i <= j)
        fraction(s, whole) ==
            IF whole + 1 < Len(src) /\ src[whole + 1] = "." /\ is_digit(src[whole + 2])
            THEN make_token([s EXCEPT !.current = match_while(src, whole + 1, is_digit)],
                            "Number")
            ELSE make_token([s EXCEPT !.current = whole], "Number")
        number(s) == fraction(s, match_while(src, s.current, is_digit))
        alnum(x) == is_alpha(x) \/ is_digit(x)
        word(s, stop) ==
            make_token([s EXCEPT !.current = stop], identifier_type(src, s.start, stop))
        identifier(s) == word(s, match_while(src, s.current, alnum))
        token(c, s) ==
            CASE c = "(" -> make_token(s, "LeftParen")
              [] c = ")" -> make_token(s, "RightParen")
              [] c = "{" -> make_token(s, "LeftBrace")
              [] c = "}" -> make_token(s, "RightBrace")
              [] c = ";" -> make_token(s, "Semicolon")
              [] c = "," -> make_token(s, "Comma")
              [] c = "." -> make_token(s, "Dot")
              [] c = "-" -> make_token(s, "Minus")
              [] c = "+" -> make_token(s, "Plus")
              [] c = "/" -> make_token(s, "Slash")
              [] c = "*" -> make_token(s, "Star")
              [] c = "!" -> two(s, "BangEqual", "Bang")
              [] c = "=" -> two(s, "EqualEqual", "Equal")
              [] c = ">" -> two(s, "GreaterEqual", "Greater")
              [] c = "<" -> two(s, "LessEqual", "Less")
              [] c = "\"" -> string(s)
              [] OTHER -> IF is_digit(c) THEN number(s)
                          ELSE IF is_alpha(c) THEN identifier(s)
                          ELSE error_token(s, "Unexpected character.")
        begin(s0) ==
            IF s0.current >= Len(src)
            THEN make_token([s0 EXCEPT !.start = s0.current], "Eof")
            ELSE token(src[s0.current + 1],
                       [s0 EXCEPT !.start = s0.current, !.current = @ + 1])
    IN  returned(begin(skip_whitespace(src, sc)))

\* Scanner::new
ScannerNew == [start |-> 0, current |-> 0, line |-> 1]

\* The scanner after 2^k scan calls from the state sc.  (The test on the
\* state half way has it evaluated before it is passed on.)
RECURSIVE scan_after(_, _, _)
scan_after(src, sc, k) ==
    IF k = 0 THEN scan(src, sc).sc
    ELSE LET half == scan_after(src, sc, k - 1)
         IN  IF half.current >= 0 THEN scan_after(src, half, k - 1) ELSE half

\* The kinds of the tokens that these 2^k scan calls return.
RECURSIVE scan_kinds(_, _, _)
scan_kinds(src, sc, k) ==
    IF k = 0 THEN {scan(src, sc).token.kind}
    ELSE LET half == scan_after(src, sc, k - 1)
         IN  IF half.current >= 0
             THEN scan_kinds(src, sc, k - 1) \cup scan_kinds(src, half, k - 1)
             ELSE {}

\* The kinds in the token stream of a source: those of Len(src) + 1 or more
\* successive scan calls on a new scanner (every token but Eof takes a
\* character, and so does every call once Eof was returned).
token_kinds(src) ==
    scan_kinds(src, ScannerNew, CHOOSE k \in 0..(Len(src) + 1) :
                                    /\ 2 ^ k >= Len(src) + 1
                                    /\ \A j \in 0..(k - 1) : 2 ^ j < Len(src) + 1)

(***************************************************************************)
(* compiler.rs.  The compiler is the record [source, scanner, current,     *)
(* previous, errors, panic_mode, current_chunk, gc, events], gc being the  *)
(* heap it borrows.  A parse function is named by a string in a ParseRule, *)
(* "None" where the rule has none.  An error message is a one-element      *)
(* sequence, as the lexeme of an Error token is.                           *)
(* events is a ghost field, the history of the error handling: "error" for *)
(* each call of error_at (recorded or dropped), "declaration" where a      *)
(* declaration begins, and for synchronize "reset" where it clears the     *)
(* flag, "skip" at each token it advances past and "synchronized" where it *)
(* returns, the last two with the kinds of current and previous there.     *)
(***************************************************************************)
\* enum Precedence, `as u8`
Precedence(name) ==
    CHOOSE i \in 0..10 :
        <<"None", "Assignment", "Or", "And", "Equality", "Comparison", "Term",
          "Factor", "Unary", "Call", "Primary">>[i + 1] = name

\* get_rule
get_rule(token) ==
    CASE token = "LeftParen" -> [prefix |-> "grouping", infix |-> "None", precedence |-> Precedence("None")]
      [] token = "Minus" -> [prefix |-> "unary", infix |-> "binary", precedence |-> Precedence("Term")]
      [] token = "Plus" -> [prefix |-> "None", infix |-> "binary", precedence |-> Precedence("Term")]
      [] token = "Slash" -> [prefix |-> "None", infix |-> "binary", precedence |-> Precedence("Factor")]
      [] token = "Star" -> [prefix |-> "None", infix |-> "binary", precedence |-> Precedence("Factor")]
      [] token = "Bang" -> [prefix |-> "unary", infix |-> "None", precedence |-> Precedence("None")]
      [] token = "BangEqual" -> [prefix |-> "None", infix |-> "binary", precedence |-> Precedence("Equality")]
      [] token = "EqualEqual" -> [prefix |-> "None", infix |-> "binary", precedence |-> Precedence("Equality")]
      [] token = "Greater" -> [prefix |-> "None", infix |-> "binary", precedence |-> Precedence("Comparison")]
      [] token = "GreaterEqual" -> [prefix |-> "None", infix |-> "binary", precedence |-> Precedence("Comparison")]
      [] token = "Less" -> [prefix |-> "None", infix |-> "binary", precedence |-> Precedence("Comparison")]
      [] token = "LessEqual" -> [prefix |-> "None", infix |-> "binary", precedence |-> Precedence("Comparison")]
      [] token = "Identifier" -> [prefix |-> "variable", infix |-> "None", precedence |-> Precedence("None")]
      [] token = "String" -> [prefix |-> "string", infix |-> "None", precedence |-> Precedence("None")]
      [] token = "Number" -> [prefix |-> "number", infix |-> "None", precedence |-> Precedence("None")]
      [] token = "False" -> [prefix |-> "literal", infix |-> "None", precedence |-> Precedence("None")]
      [] token = "Nil" -> [prefix |-> "literal", infix |-> "None", precedence |-> Precedence("None")]
      [] token = "True" -> [prefix |-> "literal", infix |-> "None", precedence |-> Precedence("None")]
      [] OTHER -> [prefix |-> "None", infix |-> "None", precedence |-> Precedence("None")]

\* Compiler::new
CompilerNew(src, g) ==
    LET made(first) ==
            [source |-> src, gc |-> g, scanner |-> first.sc,
             current |-> first.token, previous |-> first.token,
             panic_mode |-> FALSE, errors |-> <<>>, current_chunk |-> ChunkNew,
             panicked |-> FALSE, events |-> <<>>]
    IN  made(scan(src, ScannerNew))

\* Compiler::error_at without the early return on panic_mode.
error_at_always(c, token, message) ==
    [c EXCEPT !.panic_mode = TRUE,
              !.errors = Append(@, [token |-> token, message |-> message]),
              !.events = Append(@, [ev |-> "error", recorded |-> TRUE,
                                    token |-> token, message |-> message])]

\* Compiler::error_at
error_at(c, token, message) ==
    IF c.panic_mode
    THEN [c EXCEPT !.events = Append(@, [ev |-> "error", recorded |-> FALSE,
                                         token |-> token, message |-> message])]
    ELSE [c EXCEPT !.panic_mode = TRUE,
                   !.errors = Append(@, [token |-> token, message |-> message]),
                   !.events = Append(@, [ev |-> "error", recorded |-> TRUE,
                                         token |-> token, message |-> message])]

\* Compiler::advance
advance(c) ==
    LET RECURSIVE loop(_)
        took(x, r) == [x EXCEPT !.current = r.token, !.scanner = r.sc]
        checked(x) ==
            IF x.current.kind # "Error" THEN x
            ELSE loop(error_at(x, x.current, x.current.lexeme))
        loop(x) == checked(took(x, scan(x.source, x.scanner)))
    IN  loop([c EXCEPT !.previous = c.current])

\* Compiler::synchronize without the return after a `;`.
synchronize_no_semicolon(c) ==
    LET RECURSIVE loop(_)
        at(x, what) ==
            [x EXCEPT !.events = Append(@, [ev |-> what, current |-> x.current.kind,
                                            previous |-> x.previous.kind,
                                            panic_mode |-> x.panic_mode])]
        loop(x) ==
            IF x.current.kind = "Eof" THEN at(x, "synchronized")
            ELSE IF x.current.kind \in {"Class", "Fun", "Var", "For", "If", "While",
                                        "Print", "Return"}
            THEN at(x, "synchronized")
            ELSE loop(advance(at(x, "skip")))
    IN  loop([c EXCEPT !.panic_mode = FALSE,
                       !.events = Append(@, [ev |-> "reset"])])

\* Compiler::synchronize
synchronize(c) ==
    LET RECURSIVE loop(_)
        at(x, what) ==
            [x EXCEPT !.events = Append(@, [ev |-> what, current |-> x.current.kind,
                                            previous |-> x.previous.kind,
                                            panic_mode |-> x.panic_mode])]
        loop(x) ==
            IF x.current.kind = "Eof" THEN at(x, "synchronized")
            ELSE IF x.previous.kind = "Semicolon" THEN at(x, "synchronized")
            ELSE IF x.current.kind \in {"Class", "Fun", "Var", "For", "If", "While",
                                        "Print", "Return"}
            THEN at(x, "synchronized")
            ELSE loop(advance(at(x, "skip")))
    IN  loop([c EXCEPT !.panic_mode = FALSE,
                       !.events = Append(@, [ev |-> "reset"])])

\* Compiler::consume advancing whatever the current token is.
consume_any(c, kind, message) == advance(c)

\* Compiler::consume (error_at_current on a mismatch)
consume(c, kind, message) ==
    IF c.current.kind = kind THEN advance(c) ELSE error_at(c, c.current, message)

\* Compiler::emit_opcode writing the Return byte whatever the opcode.
emit_opcode_as_return(c, opcode) ==
    [c EXCEPT !.current_chunk = write_byte(@, OpByte("Return"), c.previous.line)]

\* Compiler::emit_opcode
emit_opcode(c, opcode) ==
    [c EXCEPT !.current_chunk = write_byte(@, OpByte(opcode), c.previous.line)]

\* Compiler::emit_constant; panicked: ref_const has raised its panic, which
\* unwinds compile().
emit_constant(c, value) ==
    LET written(r) ==
            [c EXCEPT !.current_chunk = r.chunk, !.panicked = @ \/ r.panic]
        referenced(const_ref) ==
            written(ref_const(const_ref.chunk, const_ref.index, "Constant",
                              "ConstantLong", c.previous.line))
    IN  referenced(add_const(c.current_chunk, value))

\* Mutant of identifier_constant: a name already in the pool is not added
\* again, its first index is returned.
identifier_constant_reusing(c) ==
    LET pool == c.current_chunk.constants
        added(obj, const_ref) ==
            [c |-> [c EXCEPT !.gc = obj.gc, !.current_chunk = const_ref.chunk],
             index |-> const_ref.index]
        allocated(obj) ==
            IF \E i \in DOMAIN pool : pool[i] = Object(obj.ref)
            THEN [c |-> [c EXCEPT !.gc = obj.gc],
                  index |-> (CHOOSE i \in DOMAIN pool : pool[i] = Object(obj.ref)) - 1]
            ELSE added(obj, add_const(c.current_chunk, Object(obj.ref)))
    IN  allocated(alloc_string(c.gc, c.previous.lexeme))

\* Compiler::identifier_constant: [c |-> the compiler afterwards, index]
identifier_constant(c) ==
    LET added(obj, const_ref) ==
            [c |-> [c EXCEPT !.gc = obj.gc, !.current_chunk = const_ref.chunk],
             index |-> const_ref.index]
        allocated(obj) == added(obj, add_const(c.current_chunk, Object(obj.ref)))
    IN  allocated(alloc_string(c.gc, c.previous.lexeme))

\* fn number: lexeme.parse::<f32>() of digits with an optional fraction
number(c) ==
    LET lexeme == c.previous.lexeme
        RECURSIVE Value(_, _)
        Value(i, acc) ==
            IF i > Len(lexeme) THEN acc
            ELSE IF lexeme[i] = "." THEN Value(i + 1, acc)
            ELSE Value(i + 1, acc * 10 + (ByteOf(lexeme[i]) - 48))
        dots == {i \in 1..Len(lexeme) : lexeme[i] = "."}
        RECURSIVE Scale(_)
        Scale(n) == IF n = 0 THEN 1 ELSE 10 * Scale(n - 1)
    IN  emit_constant(c, Number(Frac(Value(1, 0),
                                     Scale(IF dots = {} THEN 0
                                           ELSE Len(lexeme) - (CHOOSE i \in dots : TRUE)))))

\* fn literal
literal(c) ==
    emit_opcode(c, CASE c.previous.kind = "True" -> "True"
                     [] c.previous.kind = "False" -> "False"
                     [] c.previous.kind = "Nil" -> "Nil")

\* fn string
string(c) ==
    LET emit(obj) == emit_constant([c EXCEPT !.gc = obj.gc], Object(obj.ref))
    IN  emit(alloc_string(c.gc, SubSeq(c.previous.lexeme, 2, Len(c.previous.lexeme) - 1)))

\* fn variable / named_variable
variable(c) ==
    LET written(x, r) ==
            [x EXCEPT !.current_chunk = r.chunk, !.panicked = @ \/ r.panic]
        get(name_ref) ==
            written(name_ref.c, ref_const(name_ref.c.current_chunk, name_ref.index,
                                          "Get", "GetLong", c.previous.line))
    IN  get(identifier_constant(c))

RECURSIVE parse_precedence(_, _), unary(_), binary(_), grouping(_)

\* Mutant of Compiler::parse_precedence: a token that starts no expression
\* is reported where it stands, before the advance.
parse_precedence_peek(c, precedence) ==
    LET rule(x, name) ==
            CASE name = "grouping" -> grouping(x)
              [] name = "unary" -> unary(x)
              [] name = "binary" -> binary(x)
              [] name = "number" -> number(x)
              [] name = "literal" -> literal(x)
              [] name = "string" -> string(x)
              [] name = "variable" -> variable(x)
        RECURSIVE loop(_)
        infix(x) ==
            IF get_rule(x.previous.kind).infix # "None"
            THEN rule(x, get_rule(x.previous.kind).infix)
            ELSE x
        loop(x) ==
            IF precedence <= get_rule(x.current.kind).precedence
            THEN loop(infix(advance(x)))
            ELSE x
        prefix(x) == loop(rule(x, get_rule(x.previous.kind).prefix))
    IN  IF get_rule(c.current.kind).prefix = "None"
        THEN error_at(c, c.current, <<"Expected expression.">>)
        ELSE prefix(advance(c))

\* Compiler::parse_precedence, precedence as u8.  rule(x, name) is the call
\* of the parse function named.
parse_precedence(c, precedence) ==
    LET rule(x, name) ==
            CASE name = "grouping" -> grouping(x)
              [] name = "unary" -> unary(x)
              [] name = "binary" -> binary(x)
              [] name = "number" -> number(x)
              [] name = "literal" -> literal(x)
              [] name = "string" -> string(x)
              [] name = "variable" -> variable(x)
        RECURSIVE loop(_)
        infix(x) ==
            IF get_rule(x.previous.kind).infix # "None"
            THEN rule(x, get_rule(x.previous.kind).infix)
            ELSE x
        loop(x) ==
            IF precedence <= get_rule(x.current.kind).precedence
            THEN loop(infix(advance(x)))
            ELSE x
        prefix(x) ==
            IF get_rule(x.previous.kind).prefix = "None"
            THEN error_at(x, x.current, <<"Expected expression.">>)
            ELSE loop(rule(x, get_rule(x.previous.kind).prefix))
    IN  prefix(advance(c))

\* fn unary
unary(c) ==
    LET emit(op_kind, x) ==
            CASE op_kind = "Minus" -> emit_opcode(x, "Negate")
              [] op_kind = "Bang" -> emit_opcode(x, "Not")
    IN  emit(c.previous.kind, parse_precedence(c, Precedence("Unary")))

\* Mutant of binary: the right operand is parsed at the operator's own
\* precedence.
binary_same_precedence(c) ==
    LET emit(op_kind, x) ==
            CASE op_kind = "BangEqual" -> emit_opcode(emit_opcode(x, "Equal"), "Not")
              [] op_kind = "EqualEqual" -> emit_opcode(x, "Equal")
              [] op_kind = "Greater" -> emit_opcode(x, "Greater")
              [] op_kind = "GreaterEqual" -> emit_opcode(emit_opcode(x, "Less"), "Not")
              [] op_kind = "Less" -> emit_opcode(x, "Less")
              [] op_kind = "LessEqual" -> emit_opcode(emit_opcode(x, "Greater"), "Not")
              [] op_kind = "Plus" -> emit_opcode(x, "Add")
              [] op_kind = "Minus" -> emit_opcode(x, "Subtract")
              [] op_kind = "Star" -> emit_opcode(x, "Multiply")
              [] op_kind = "Slash" -> emit_opcode(x, "Divide")
    IN  emit(c.previous.kind,
             parse_precedence(c, get_rule(c.previous.kind).precedence))

\* fn binary
binary(c) ==
    LET emit(op_kind, x) ==
            CASE op_kind = "BangEqual" -> emit_opcode(emit_opcode(x, "Equal"), "Not")
              [] op_kind = "EqualEqual" -> emit_opcode(x, "Equal")
              [] op_kind = "Greater" -> emit_opcode(x, "Greater")
              [] op_kind = "GreaterEqual" -> emit_opcode(emit_opcode(x, "Less"), "Not")
              [] op_kind = "Less" -> emit_opcode(x, "Less")
              [] op_kind = "LessEqual" -> emit_opcode(emit_opcode(x, "Greater"), "Not")
              [] op_kind = "Plus" -> emit_opcode(x, "Add")
              [] op_kind = "Minus" -> emit_opcode(x, "Subtract")
              [] op_kind = "Star" -> emit_opcode(x, "Multiply")
              [] op_kind = "Slash" -> emit_opcode(x, "Divide")
    IN  emit(c.previous.kind,
             parse_precedence(c, get_rule(c.previous.kind).precedence + 1))

\* fn grouping
grouping(c) ==
    consume(parse_precedence(c, Precedence("Assignment")), "RightParen",
            <<"Expect ')' after expression.">>)

\* Compiler::var_declaration, with parse_variable and define_variable
var_declaration(c) ==
    LET written(x, r) ==
            [x EXCEPT !.current_chunk = r.chunk, !.panicked = @ \/ r.panic]
        define(global, x) ==
            written(x, ref_const(x.current_chunk, global, "DefineGlobal",
                                 "DefineGlobalLong", x.previous.line))
        initializer(x) ==
            IF x.current.kind = "Equal"
            THEN parse_precedence(advance(x), Precedence("Assignment"))
            ELSE emit_opcode(x, "Nil")
        declared(name_ref) ==
            define(name_ref.index,
                   consume(initializer(name_ref.c), "Semicolon",
                           <<"Expected ';' after variable declaration.">>))
    IN  declared(identifier_constant(consume(c, "Identifier",
                                             <<"Expected variable name.">>)))

\* Variant of expression_statement that emits no Pop.
expression_statement_no_pop(c) ==
    consume(parse_precedence(c, Precedence("Assignment")), "Semicolon",
            <<"Expected ';' after value.">>)

\* Compiler::print_statement
print_statement(c) ==
    emit_opcode(consume(parse_precedence(c, Precedence("Assignment")), "Semicolon",
                        <<"Expected ';' after value.">>),
                "Print")

\* Compiler::expression_statement
expression_statement(c) ==
    emit_opcode(consume(parse_precedence(c, Precedence("Assignment")), "Semicolon",
                        <<"Expected ';' after value.">>),
                "Pop")

\* Compiler::declaration, with statement
declaration(c) ==
    LET declared(x) == IF x.panic_mode THEN synchronize(x) ELSE x
        begun(x) == [x EXCEPT !.events = Append(@, [ev |-> "declaration"])]
    IN  declared(IF c.current.kind = "Var" THEN var_declaration(advance(begun(c)))
                 ELSE IF c.current.kind = "Print" THEN print_statement(advance(begun(c)))
                 ELSE expression_statement(begun(c)))

(***************************************************************************)
(* Rle harness: push calls on a new Rle, as the tests of rle.rs make them. *)
(***************************************************************************)
MaxPush == 5        \* push is called while fewer values were pushed

RleInit ==
    /\ rle = RleNew
    /\ pushLog = <<>>

\* rle.push(value)
RPush(value) ==
    /\ Len(pushLog) < MaxPush
    /\ rle' = RlePush(rle, value)
    /\ pushLog' = Append(pushLog, value)

RleHarnessNext ==
    \E value \in {1, 2, 3} :
        RPush(value) /\ UNCHANGED <<tableVars, gcVars, chunkVars, vmVars, compVars>>

(***************************************************************************)
(* Table harness: set/get/find/delete calls on one Table<T>, as the tests  *)
(* of table.rs make them, on ObjStrings that live outside any GC.          *)
(***************************************************************************)
NumActive == 2      \* keys that are set, overwritten and deleted freely
NumFill == 4        \* further keys, set in order by the fill loop
MaxVal == 2         \* values are 1..MaxVal

\* The ObjStrings of the harness; the pointer of a key is its position.
\* "y", "k6", "yx" share the home bucket 4 at capacities 8 and 16, "b" and
\* "k5" follow at 5; keys 1 and 3 are two ObjStrings of equal content.
KeyContent ==
    << <<"y">>, <<"k", "6">>, <<"y">>, <<"y", "x">>, <<"b">>, <<"k", "1">>,
       <<"k", "2">>, <<"k", "3">>, <<"k", "5">>, <<"k", "0">>, <<"k", "8">>,
       <<"k", "4">>, <<"k", "7">> >>

KeyMem == [p \in 1..Len(KeyContent) |-> ObjStringNew(KeyContent[p])]

ActiveKeys == 1..NumActive
FillKeys == (NumActive + 1)..(NumActive + NumFill)
Keys == ActiveKeys \cup FillKeys
Vals == 1..MaxVal
Absent == 0

TableInit ==
    /\ table = TableNew
    /\ refmap = [k \in Keys |-> Absent]

RECURSIVE SetAll(_, _, _, _)
\* for key in keys { table.set(key, v) }, the loop that fills the table in
\* the tests: keys first..last in order.
SetAll(t, first, last, v) ==
    IF first > last THEN t
    ELSE SetAll(TableSet(t, first, v, KeyMem).table, first + 1, last, v)

\* The fill loop, on a new table: the first n fill keys are set to v.
TFill(n, v) ==
    /\ table = TableNew
    /\ table' = SetAll(table, NumActive + 1, NumActive + n, v)
    /\ refmap' = [k \in Keys |-> IF k \in (NumActive + 1)..(NumActive + n)
                                 THEN v ELSE refmap[k]]

\* table.set(&key, value)
TSet(k, v) ==
    /\ table' = TableSet(table, k, v, KeyMem).table
    /\ refmap' = [refmap EXCEPT ![k] = v]

\* table.delete(&key)
TDelete(k) ==
    /\ table' = TableDelete(table, k, KeyMem).table
    /\ refmap' = [refmap EXCEPT ![k] = Absent]

TableNext ==
    \/ \E n \in 1..NumFill, v \in Vals : TFill(n, v) /\ UNCHANGED <<rleVars, gcVars, chunkVars, vmVars, compVars>>
    \/ \E k \in ActiveKeys, v \in Vals : TSet(k, v) /\ UNCHANGED <<rleVars, gcVars, chunkVars, vmVars, compVars>>
    \/ \E k \in ActiveKeys \cup {NumActive + 1} : TDelete(k) /\ UNCHANGED <<rleVars, gcVars, chunkVars, vmVars, compVars>>

(***************************************************************************)
(* GC harness: alloc_string calls on one GC.                               *)
(***************************************************************************)
NumContents == 4    \* contents interned freely, in any order, repeatedly
NumPrefill == 4     \* further contents, interned in order by a loop

\* "y", "k6", "yx", "ba" and "a" share the home bucket 4 at capacity 8.
ContentPool ==
    << <<"y">>, <<"k", "6">>, <<"b">>, <<>>, <<"y", "x">>, <<"a">>, <<"b", "a">>,
       <<"z">>, <<"x", "x">>, <<"k", "5">>, <<"k", "1">>, <<"k", "2">> >>

Contents == {ContentPool[i] : i \in 1..NumContents}
PrefillContents(n) == {ContentPool[i] : i \in (NumContents + 1)..(NumContents + n)}

GCInit ==
    /\ gc = GCNew
    /\ allocLog = {}

RECURSIVE AllocAll(_, _, _)
\* for i in first..=last { gc.alloc_string(pool[i]) }: the GC and the log of
\* <<content, handle>> afterwards.
AllocAll(st, first, last) ==
    IF first > last THEN st
    ELSE LET r == alloc_string(st.gc, ContentPool[first])
         IN  AllocAll([gc |-> r.gc,
                       log |-> st.log \cup {<<ContentPool[first], r.ref>>}],
                      first + 1, last)

\* The fill loop, on a new GC: the first n prefill contents are interned.
GCFill(n) ==
    /\ gc = GCNew
    /\ LET st == AllocAll([gc |-> gc, log |-> allocLog],
                          NumContents + 1, NumContents + n)
       IN  gc' = st.gc /\ allocLog' = st.log

\* gc.alloc_string(s)
AllocString(s) ==
    LET r == alloc_string(gc, s)
    IN  /\ gc' = r.gc
        /\ allocLog' = allocLog \cup {<<s, r.ref>>}

GCNext ==
    \/ \E n \in 1..NumPrefill : GCFill(n) /\ UNCHANGED <<tableVars, rleVars, chunkVars, vmVars, compVars>>
    \/ \E s \in Contents : AllocString(s) /\ UNCHANGED <<tableVars, rleVars, chunkVars, vmVars, compVars>>

(***************************************************************************)
(* Chunk harness: the append operations of Chunk, as the tests of chunk.rs *)
(* and vm.rs and the compiler call them.                                   *)
(***************************************************************************)
MaxCode == 3        \* code is written while it is shorter than this
MaxConsts == 3      \* add_const is called while the pool is smaller
ManyConsts == 300   \* the constants of writes_300_constants
MaxEmit == 2        \* emit_constant is called this often on a compiled chunk

ChunkInit ==
    /\ chunk = ChunkNew
    /\ refLog = <<>>
    /\ addLog = <<>>

\* chunk.write_byte(b, line)
CWriteByte(b, line) ==
    /\ Len(chunk.code) < MaxCode
    /\ chunk' = write_byte(chunk, b, line)
    /\ UNCHANGED <<refLog, addLog>>

\* chunk.write_opcode(op, line)
CWriteOpcode(op, line) ==
    /\ Len(chunk.code) < MaxCode
    /\ chunk' = write_opcode(chunk, op, line)
    /\ UNCHANGED <<refLog, addLog>>

\* chunk.write_short(v, line)
CWriteShort(v, line) ==
    /\ Len(chunk.code) < MaxCode
    /\ chunk' = write_short(chunk, v, line)
    /\ UNCHANGED <<refLog, addLog>>

\* chunk.ref_const(i, byte_op, long_op, line)
CRefConst(i, ops, line) ==
    /\ Len(chunk.code) < MaxCode
    /\ LET r == ref_const(chunk, i, ops[1], ops[2], line)
       IN  /\ chunk' = r.chunk
           /\ refLog' = IF r.panic THEN refLog
                        ELSE Append(refLog, [index |-> i, byte_op |-> ops[1],
                                             long_op |-> ops[2],
                                             offset |-> Len(chunk.code),
                                             end |-> Len(r.chunk.code)])
    /\ UNCHANGED addLog

\* for i in 0..300 { chunk.add_const(Value::Number(i as f32)) }
CFillConsts ==
    /\ chunk.constants = <<>>
    /\ chunk' = [chunk EXCEPT !.constants = [i \in 1..ManyConsts |-> Number(Frac(i - 1, 1))]]
    /\ UNCHANGED <<refLog, addLog>>

ChunkNext ==
    \/ \E b \in {255}, l \in {1, 2} :
          CWriteByte(b, l) /\ UNCHANGED <<tableVars, rleVars, gcVars, vmVars, compVars>>
    \/ \E op \in {"Return"}, l \in {1, 2} :
          CWriteOpcode(op, l) /\ UNCHANGED <<tableVars, rleVars, gcVars, vmVars, compVars>>
    \/ \E v \in {258}, l \in {1, 2} :
          CWriteShort(v, l) /\ UNCHANGED <<tableVars, rleVars, gcVars, vmVars, compVars>>
    \/ \E i \in {0, 255, 256, 65535, 65536},
          ops \in {<<"Constant", "ConstantLong">>, <<"Get", "GetLong">>}, l \in {1, 2} :
          CRefConst(i, ops, l) /\ UNCHANGED <<tableVars, rleVars, gcVars, vmVars, compVars>>
    \/ CFillConsts /\ UNCHANGED <<tableVars, rleVars, gcVars, vmVars, compVars>>

\* chunk.add_const(value)
CAddConst(value) ==
    /\ Len(chunk.constants) < MaxConsts
    /\ LET r == add_const(chunk, value)
       IN  /\ chunk' = r.chunk
           /\ addLog' = Append(addLog, [value |-> value, index |-> r.index])
    /\ UNCHANGED <<refLog, gcVars>>

\* chunk.add_const(Value::Object(gc.alloc_string(name)))
CAddStringConst(name) ==
    /\ Len(chunk.constants) < MaxConsts
    /\ LET a == alloc_string(gc, name)
           r == add_const(chunk, Object(a.ref))
       IN  /\ gc' = a.gc
           /\ allocLog' = allocLog \cup {<<name, a.ref>>}
           /\ chunk' = r.chunk
           /\ addLog' = Append(addLog, [value |-> Object(a.ref), index |-> r.index])
    /\ UNCHANGED refLog

\* The Chunk of the compiler after the n statements `0;` on line 1: for each
\* k < n the reference to constant k, short below 256 and long from there,
\* and Pop.
CCompiled(n) ==
    /\ chunk = ChunkNew
    /\ comp.state = "Idle"
    /\ LET short == IF n < 256 THEN n ELSE 256
           len == 3 * short + 4 * (n - short)
           byte(p) ==
               IF p <= 768
               THEN CASE (p - 1) % 3 = 0 -> OpByte("Constant")
                      [] (p - 1) % 3 = 1 -> (p - 1) \div 3
                      [] OTHER -> OpByte("Pop")
               ELSE CASE (p - 769) % 4 = 0 -> OpByte("ConstantLong")
                      [] (p - 769) % 4 = 1 -> (256 + (p - 769) \div 4) \div 256
                      [] (p - 769) % 4 = 2 -> (256 + (p - 769) \div 4) % 256
                      [] OTHER -> OpByte("Pop")
       IN  chunk' = [code |-> [p \in 1..len |-> byte(p)],
                     constants |-> [k \in 1..n |-> Number(Frac(0, 1))],
                     lines |-> [data |-> <<[value |-> 1, count |-> len]>>,
                                last_value |-> Some(1)]]
    /\ UNCHANGED <<refLog, addLog, gcVars, comp>>

\* The next statement `0;` of the source: number() calls emit_constant, and
\* when that returns the statement ends with Pop.  A panic of ref_const
\* leaves compile() without a result.
CEmitConstant(value) ==
    /\ comp.state = "Idle"
    /\ \E n \in {255, 65535} : n <= Len(chunk.constants) /\ Len(chunk.constants) < n + MaxEmit
    /\ LET emitted(c) ==
             IF c.panicked
             THEN /\ chunk' = c.current_chunk
                  /\ comp' = [state |-> "Panic", message |-> "Invalid constant reference"]
             ELSE /\ chunk' = emit_opcode(c, "Pop").current_chunk
                  /\ UNCHANGED comp
       IN  emitted(emit_constant([CompilerNew(<<"0", ";">>, gc) EXCEPT
                                     !.current_chunk = chunk], value))
    /\ UNCHANGED <<refLog, addLog, gcVars>>

ConstsNext ==
    \/ \E v \in {Nil, Boolean(TRUE), Boolean(FALSE), Number(Frac(0, 1)),
                 Number(Frac(6, 5)), Number(NaN)} :
          CAddConst(v) /\ UNCHANGED <<tableVars, rleVars, vmVars, compVars>>
    \/ \E n \in {<<"x">>, <<"y">>} :
          CAddStringConst(n) /\ UNCHANGED <<tableVars, rleVars, vmVars, compVars>>
    \* 255, 65 535 statements: the next index is the last short, the last long one
    \/ \E n \in {255, 65535} :
          CCompiled(n) /\ UNCHANGED <<tableVars, rleVars, vmVars, stmtEnds>>
    \/ CEmitConstant(Number(Frac(0, 1))) /\ UNCHANGED <<tableVars, rleVars, vmVars, stmtEnds>>

(***************************************************************************)
(* VM harness: run() over a chunk built through the Chunk and GC           *)
(* interface, one action per instruction executed.                         *)
(***************************************************************************)
MaxProg == 2        \* instruction sequences of the menu up to this length
MaxGlobalOps == 3   \* sequences of define / get statements up to this length

RECURSIVE Build(_, _, _, _)
\* The chunk and heap after the calls items lo..hi of a program description
\* stand for: an opcode (write_opcode), a raw byte (write_byte), unused
\* constants (add_const only), a constant and its reference (add_const, then
\* ref_const with the short and long form of the opcode), or the same for an
\* interned string (gc.alloc_string first).  The items are applied in
\* order; the range is halved, and the left half evaluated first (by the
\* comparison with itself), to keep the evaluation shallow.
Build(prog, lo, hi, st) ==
    IF lo > hi THEN st
    ELSE IF lo < hi
    THEN LET mid == (lo + hi) \div 2
             left == Build(prog, lo, mid, st)
         IN  IF left = left THEN Build(prog, mid + 1, hi, left) ELSE st
    ELSE
      LET it == prog[lo]
          long == CASE it.op = "Constant" -> "ConstantLong"
                    [] it.op = "Get" -> "GetLong"
                    [] it.op = "DefineGlobal" -> "DefineGlobalLong"
                    [] OTHER -> it.op
          a == alloc_string(st.gc, it.s)
          k == add_const(st.chunk, IF it.k = "str" THEN Object(a.ref) ELSE it.v)
      IN  CASE it.k = "op" -> [st EXCEPT !.chunk = write_opcode(@, it.op, 1)]
            [] it.k = "byte" -> [st EXCEPT !.chunk = write_byte(@, it.b, 1)]
            [] it.k = "pad" ->
                 [st EXCEPT !.chunk.constants =
                      @ \o [n \in 1..it.n |-> Number(Frac(n - 1, 1))]]
            [] it.k = "const" ->
                 [st EXCEPT !.chunk = ref_const(k.chunk, k.index, it.op, long, 1).chunk]
            [] it.k = "str" ->
                 [chunk |-> ref_const(k.chunk, k.index, it.op, long, 1).chunk,
                  gc |-> a.gc]

\* The programs run: every sequence of up to MaxProg menu items, every
\* binary instruction over every pair of operand kinds, every sequence of up
\* to MaxGlobalOps define / get statements (also behind 256 unused constants,
\* which makes the references long), and pushes up to and past STACK_MAX.
Programs ==
    LET Ins(op) == [k |-> "op", op |-> op]
        K(v, op) == [k |-> "const", v |-> v, op |-> op]
        S(s, op) == [k |-> "str", s |-> s, op |-> op]
        Seqs(items, n) == UNION {[1..m -> items] : m \in 1..n}
        Operands == {Ins("Nil"), Ins("True"), Ins("False"),
                     K(Number(Frac(1, 1)), "Constant"), K(Number(Frac(6, 5)), "Constant"),
                     K(Number(NaN), "Constant"),
                     S(<<"a">>, "Constant"), S(<<"b">>, "Constant")}
        Binary == {"Equal", "Greater", "Less", "Add", "Subtract", "Multiply", "Divide"}
        Menu == {Ins("Nil"), K(Number(Frac(6, 5)), "Constant"), S(<<"a">>, "Constant"),
                 S(<<"x">>, "Get"), S(<<"x">>, "DefineGlobal"), K(Nil, "Get"),
                 K(Nil, "DefineGlobal"), Ins("Constant"), Ins("GetLong"),
                 [k |-> "byte", b |-> 7], [k |-> "byte", b |-> 21]}
                \cup {Ins(op) : op \in Binary \cup {"Return", "Pop", "Not", "Negate", "Print"}}
        Statements == {<<K(Number(Frac(1, 1)), "Constant"), S(<<"x">>, "DefineGlobal")>>,
                       <<Ins("True"), S(<<"x">>, "DefineGlobal")>>,
                       <<S(<<"a">>, "Constant"), S(<<"y">>, "DefineGlobal")>>,
                       <<S(<<"x">>, "Get"), Ins("Print")>>,
                       <<S(<<"y">>, "Get"), Ins("Pop")>>}
        RECURSIVE Flat(_, _)
        Flat(ss, i) == IF i > Len(ss) THEN <<>> ELSE ss[i] \o Flat(ss, i + 1)
        Globals == {Flat(ss, 1) : ss \in Seqs(Statements, MaxGlobalOps)}
        Deep(n) == [i \in 1..n |-> K(Number(Frac(i - 1, 1)), "Constant")]
    IN  Seqs(Menu, MaxProg)
        \cup {<<a, b, Ins(op)>> : a \in Operands, b \in Operands, op \in Binary}
        \cup Globals
        \cup {<<[k |-> "pad", n |-> STACK_MAX]>> \o g : g \in Globals}
        \cup {Deep(STACK_MAX) \o <<Ins("Return")>>, Deep(STACK_MAX + 1) \o <<Ins("Return")>>,
              Deep(STACK_MAX) \o <<S(<<"x">>, "Get")>>}

\* VM::new(config, &chunk, &mut gc) and interpret_chunk, for a program.
VMInit ==
    /\ TableInit /\ RleInit /\ refLog = <<>> /\ addLog = <<>> /\ allocLog = {}
    /\ \E prog \in Programs :
          LET built == Build(prog, 1, Len(prog), [chunk |-> ChunkNew, gc |-> GCNew])
          IN  chunk = built.chunk /\ gc = built.gc
    /\ vm = VMNew
    /\ bound = <<>>
    /\ comp = [state |-> "Idle"] /\ stmtEnds = {}

\* let byte = self.read_byte()
Fetch == read_byte(chunk, vm.ip)

\* Mutant of the decode: the loop of run() goes on whatever run returned.
DecodedAfterReturn(op) ==
    /\ Fetch.ok
    /\ OpFromU8(Fetch.value) = Some(op)

\* run() is at an instruction whose byte decodes to op.
Decoded(op) ==
    /\ vm.result.state = "Running"
    /\ Fetch.ok
    /\ OpFromU8(Fetch.value) = Some(op)

\* The operand of the instruction: read_constant or read_constant_long.
Operand(op) ==
    IF op \in {"ConstantLong", "GetLong", "DefineGlobalLong"}
    THEN read_constant_long(chunk, Fetch.ip)
    ELSE read_constant(chunk, Fetch.ip)

\* run() returns res (an Err through `?`, an Ok, or a panic unwinding).
Halt(v, res) == [v EXCEPT !.result = res]

\* self.stack_push(value)?
Push(v, value) ==
    LET p == stack_push(v, value)
    IN  IF p.ok THEN p.vm ELSE Halt(p.vm, p.err)

\* The instruction reads a constant (operand r) and goes on with it.
WithConstant(r, then(_, _)) ==
    IF ~r.ok THEN Halt([vm EXCEPT !.ip = Fetch.ip], r.err)
    ELSE IF ~r.value.some
    THEN Halt([vm EXCEPT !.ip = r.ip],
              [state |-> "Panic", fmt |-> "Invalid constant reference: {}"])
    ELSE then([vm EXCEPT !.ip = r.ip], r.value.value)

\* The instruction takes a name constant and goes on with its handle.
WithName(r, then(_, _)) ==
    LET named(v, name_val) ==
          IF name_val.kind = "Object" THEN then(v, name_val.ptr)
          ELSE Halt(v, [state |-> "Panic", fmt |-> "Expected string as name, got {:?}"])
    IN  WithConstant(r, named)

\* let byte = self.read_byte()? at the end of the code
VMReadError ==
    /\ vm.result.state = "Running"
    /\ ~Fetch.ok
    /\ vm' = Halt(vm, Fetch.err)
    /\ UNCHANGED <<tableVars, rleVars, compVars, gcVars, chunkVars, bound>>

\* FromPrimitive::from_u8(byte).ok_or(...)?
VMUnknownOpcode ==
    /\ vm.result.state = "Running"
    /\ Fetch.ok
    /\ OpFromU8(Fetch.value) = None
    /\ vm' = Halt([vm EXCEPT !.ip = Fetch.ip],
                  RuntimeError("Unknown opcode: {}", <<Digits(Fetch.value)>>))
    /\ UNCHANGED <<tableVars, rleVars, compVars, gcVars, chunkVars, bound>>

\* Mutant of Return: the underflow of stack_pop is returned as the error.
VMReturnUnderflow ==
    /\ Decoded("Return")
    /\ LET p == stack_pop([vm EXCEPT !.ip = Fetch.ip])
       IN  vm' = Halt(p.vm, IF p.ok THEN [state |-> "Ok", value |-> p.value] ELSE p.err)
    /\ UNCHANGED <<tableVars, rleVars, compVars, gcVars, chunkVars, bound>>

\* Return
VMReturn ==
    /\ Decoded("Return")
    /\ LET p == stack_pop([vm EXCEPT !.ip = Fetch.ip])
       IN  vm' = Halt(p.vm, [state |-> "Ok", value |-> IF p.ok THEN p.value ELSE Nil])
    /\ UNCHANGED <<tableVars, rleVars, compVars, gcVars, chunkVars, bound>>

\* Constant, ConstantLong
VMConstant(op) ==
    /\ Decoded(op)
    /\ vm' = WithConstant(Operand(op), Push)
    /\ UNCHANGED <<tableVars, rleVars, compVars, gcVars, chunkVars, bound>>

\* Nil, True, False
VMLiteral(op) ==
    /\ Decoded(op)
    /\ vm' = Push([vm EXCEPT !.ip = Fetch.ip],
                  CASE op = "Nil" -> Nil [] op = "True" -> Boolean(TRUE)
                    [] op = "False" -> Boolean(FALSE))
    /\ UNCHANGED <<tableVars, rleVars, compVars, gcVars, chunkVars, bound>>

\* Pop
VMPop ==
    /\ Decoded("Pop")
    /\ LET p == stack_pop([vm EXCEPT !.ip = Fetch.ip])
       IN  vm' = IF p.ok THEN p.vm ELSE Halt(p.vm, p.err)
    /\ UNCHANGED <<tableVars, rleVars, compVars, gcVars, chunkVars, bound>>

\* Get, GetLong
VMGet(op) ==
    /\ Decoded(op)
    /\ LET lookup(v, name) ==
             LET value == TableGet(v.globals, name, HeapStrings(gc))
             IN  IF value.some THEN Push(v, value.value)
                 ELSE Halt(v, RuntimeError("Undefined variable: {}",
                                           <<Display(Object(name), HeapStrings(gc))>>))
       IN  vm' = WithName(Operand(op), lookup)
    /\ UNCHANGED <<tableVars, rleVars, compVars, gcVars, chunkVars, bound>>

\* Mutant of DefineGlobal: the name is bound (to nil) before the value is
\* popped, so a stack underflow leaves a binding behind.
VMDefineGlobalBindFirst(op) ==
    /\ Decoded(op)
    /\ LET define(v, name) ==
             LET p == stack_pop(v)
                 named == [p.vm EXCEPT !.globals =
                              TableSet(@, name, IF p.ok THEN p.value ELSE Nil,
                                       HeapStrings(gc)).table]
             IN  IF ~p.ok THEN Halt(named, p.err) ELSE named
           record(v, name) ==
             LET n == HeapStrings(gc)[name].value
             IN  IF v.stack_top = 0 THEN bound
                 ELSE [c \in DOMAIN bound \cup {n} |->
                          IF c = n THEN v.stack[v.stack_top] ELSE bound[c]]
           r == Operand(op)
       IN  /\ vm' = WithName(r, define)
           /\ bound' = IF r.ok /\ r.value.some /\ r.value.value.kind = "Object"
                       THEN record(vm, r.value.value.ptr) ELSE bound
    /\ UNCHANGED <<tableVars, rleVars, compVars, gcVars, chunkVars>>

\* DefineGlobal, DefineGlobalLong
VMDefineGlobal(op) ==
    /\ Decoded(op)
    /\ LET define(v, name) ==
             LET p == stack_pop(v)
             IN  IF ~p.ok THEN Halt(p.vm, p.err)
                 ELSE [p.vm EXCEPT !.globals =
                          TableSet(@, name, p.value, HeapStrings(gc)).table]
           record(v, name) ==
             LET n == HeapStrings(gc)[name].value
             IN  IF v.stack_top = 0 THEN bound
                 ELSE [c \in DOMAIN bound \cup {n} |->
                          IF c = n THEN v.stack[v.stack_top] ELSE bound[c]]
           r == Operand(op)
       IN  /\ vm' = WithName(r, define)
           /\ bound' = IF r.ok /\ r.value.some /\ r.value.value.kind = "Object"
                       THEN record(vm, r.value.value.ptr) ELSE bound
    /\ UNCHANGED <<tableVars, rleVars, compVars, gcVars, chunkVars>>

\* Equal
VMEqual ==
    /\ Decoded("Equal")
    /\ LET p == stack_pop_binary([vm EXCEPT !.ip = Fetch.ip])
       IN  vm' = IF ~p.ok THEN Halt(p.vm, p.err)
                 ELSE Push(p.vm, Boolean(are_equal(p.a, p.b)))
    /\ UNCHANGED <<tableVars, rleVars, compVars, gcVars, chunkVars, bound>>

\* Less (a < b), Greater (a > b)
VMCompare(op) ==
    /\ Decoded(op)
    /\ \E below \in BOOLEAN :
          LET p == stack_pop_binary([vm EXCEPT !.ip = Fetch.ip])
          IN  vm' = IF ~p.ok THEN Halt(p.vm, p.err)
                    ELSE Push(p.vm, Boolean(partial_cmp(p.a, p.b, below) = op))
    /\ UNCHANGED <<tableVars, rleVars, compVars, gcVars, chunkVars, bound>>

\* Add
VMAdd ==
    /\ Decoded("Add")
    /\ LET p == stack_pop_binary([vm EXCEPT !.ip = Fetch.ip])
           mem == HeapStrings(gc)
       IN  IF ~p.ok
           THEN vm' = Halt(p.vm, p.err) /\ UNCHANGED gcVars
           ELSE IF p.a.kind = "Number" /\ p.b.kind = "Number"
           THEN vm' = Push(p.vm, Number(NumArith("Add", p.a.n, p.b.n))) /\ UNCHANGED gcVars
           ELSE IF p.a.kind = "Object" /\ p.b.kind = "Object"
           THEN LET text == mem[p.a.ptr].value \o mem[p.b.ptr].value
                    result == alloc_string(gc, text)
                IN  /\ gc' = result.gc
                    /\ allocLog' = allocLog \cup {<<text, result.ref>>}
                    /\ vm' = Push(p.vm, Object(result.ref))
           ELSE /\ vm' = Halt(p.vm, RuntimeError("Invalid type for addition: {} {}",
                                                 <<Display(p.a, mem), Display(p.b, mem)>>))
                /\ UNCHANGED gcVars
    /\ UNCHANGED <<tableVars, rleVars, compVars, chunkVars, bound>>

\* Subtract, Multiply, Divide
VMArith(op) ==
    /\ Decoded(op)
    /\ LET p == stack_pop_binary([vm EXCEPT !.ip = Fetch.ip])
           mem == HeapStrings(gc)
           fmt == CASE op = "Subtract" -> "Invalid type for subtraction: {} {}"
                    [] op = "Multiply" -> "Invalid type for multiplication: {} {}"
                    [] op = "Divide" -> "Invalid type for division: {} {}"
       IN  vm' = IF ~p.ok THEN Halt(p.vm, p.err)
                 ELSE IF p.a.kind = "Number" /\ p.b.kind = "Number"
                 THEN Push(p.vm, Number(NumArith(op, p.a.n, p.b.n)))
                 ELSE Halt(p.vm, RuntimeError(fmt, <<Display(p.a, mem), Display(p.b, mem)>>))
    /\ UNCHANGED <<tableVars, rleVars, compVars, gcVars, chunkVars, bound>>

\* Negate
VMNegate ==
    /\ Decoded("Negate")
    /\ LET p == stack_pop([vm EXCEPT !.ip = Fetch.ip])
       IN  vm' = IF ~p.ok THEN Halt(p.vm, p.err)
                 ELSE IF p.value.kind = "Number"
                 THEN Push(p.vm, Number(NumArith("Negate", p.value.n, p.value.n)))
                 ELSE Halt(p.vm, RuntimeError("Invalid type for negation: {}",
                                              <<Display(p.value, HeapStrings(gc))>>))
    /\ UNCHANGED <<tableVars, rleVars, compVars, gcVars, chunkVars, bound>>

\* Not
VMNot ==
    /\ Decoded("Not")
    /\ LET p == stack_pop([vm EXCEPT !.ip = Fetch.ip])
       IN  vm' = IF ~p.ok THEN Halt(p.vm, p.err)
                 ELSE Push(p.vm, Boolean(is_falsey(p.value)))
    /\ UNCHANGED <<tableVars, rleVars, compVars, gcVars, chunkVars, bound>>

\* the instruction that writes the value popped and a newline to stdout
VMPrint ==
    /\ Decoded(OpCodes[21])
    /\ LET p == stack_pop([vm EXCEPT !.ip = Fetch.ip])
       IN  vm' = IF ~p.ok THEN Halt(p.vm, p.err)
                 ELSE [p.vm EXCEPT !.out =
                          Append(@, [fmt |-> "{}\n",
                                     args |-> <<Display(p.value, HeapStrings(gc))>>])]
    /\ UNCHANGED <<tableVars, rleVars, compVars, gcVars, chunkVars, bound>>

\* The instructions the compiler emits.
VMCompiledNext ==
    \/ VMReturn
    \/ VMConstant("Constant")
    \/ VMConstant("ConstantLong")
    \/ VMLiteral("Nil")
    \/ VMLiteral("True")
    \/ VMLiteral("False")
    \/ VMPop
    \/ VMGet("Get")
    \/ VMGet("GetLong")
    \/ VMDefineGlobal("DefineGlobal")
    \/ VMDefineGlobal("DefineGlobalLong")
    \/ VMEqual
    \/ VMCompare("Less")
    \/ VMCompare("Greater")
    \/ VMAdd
    \/ VMArith("Subtract")
    \/ VMArith("Multiply")
    \/ VMArith("Divide")
    \/ VMNegate
    \/ VMNot
    \/ VMPrint

VMNext == VMReadError \/ VMUnknownOpcode \/ VMCompiledNext

(***************************************************************************)
(* The pipeline of main.rs run_file: compile(source, gc), then VM::new     *)
(* over the chunk and the same gc, then run.  compile goes one             *)
(* declaration at a time; the VM exists from the moment compile returns    *)
(* Ok.  The sources are the concatenations of up to MaxDecls texts of a    *)
(* menu of declarations (well-formed and not), some longer single          *)
(* sources, and sources with more than 256 constants, which make the       *)
(* compiler emit the long operand forms.                                   *)
(***************************************************************************)
MaxDecls == 2       \* menu texts concatenated into one source

Sources ==
    LET Menu ==
          {<<"1", ";">>,
           <<"p", "r", "i", "n", "t", " ", "1", "+", "2", "*", "3", ";">>,
           <<"v", "a", "r", " ", "x", "=", "1", ";">>,
           <<"v", "a", "r", " ", "x", ";">>,
           <<"p", "r", "i", "n", "t", " ", "x", ";">>,
           <<"\"", "a", "\"", "+", "\"", "b", "\"", ";">>,
           <<"!", "(", "x", "<", "=", "2", ")", ";">>,
           <<"/", "/", " ", "c", "\n">>,
           <<"p", "r", "i", "n", "t", " ", ";">>,
           <<"v", "a", "r", " ", "1", ";">>,
           <<"@">>,
           <<"(", "1", ";">>,
           <<"1", " ", "2", ";">>}
        Single ==
          {<<"p", "r", "i", "n", "t", " ", "-", "(", "1", ".", "5", ")", "/", "2", ";">>,
           <<"!", "n", "i", "l", "=", "=", "t", "r", "u", "e", ";">>,
           <<"1", ">", "=", "2", ";">>,
           <<"1", "<", "2", ";">>,
           <<"1", ">", "2", ";">>,
           <<"1", "!", "=", "2", ";">>,
           <<"1", "-", "2", ";">>,
           <<"f", "a", "l", "s", "e", ";">>,
           <<"\"", "a">>,
           <<"1", "+", ";">>,
           <<"1", ";", ")">>,
           <<"v", "a", "r", " ", "y", "\n", "=", "\t", "x", " ", ";">>,
           <<"p", "r", "i", "n", "t", " ", "\"", "a", "\n", "b", "\"", ";">>,
           <<"1", ".", ";">>,
           <<"v", "a", "r", " ", "t", "=", "t", "r", "u", "e", ";", " ", "p", "r", "i", "n", "t", " ", "t", "=", "=", "t", ";">>,
           <<"v", "a", "r", " ", "f", ";", " ", "f", "o", "r", ";">>,
           <<"1", " ", "/", " ", "2">>,
           <<"p", "r", "i", "n", "t", " ", "1", ";", ";">>,
           <<"v", "a", "r", " ", "x", "=", "1", ";", " ", "p", "r", "i", "n", "t", " ", "x", "+", "x", "*", "x", ";", " ", "x", "-", "1", ";">>,
           <<"\"", "a", "b", "\"", ";", " ", "\"", "a", "\"", "+", "\"", "b", "\"", ";">>,
           <<"1", " ", "2", " ", "@", ";", "3", " ", "3", ";">>,
           <<"1", " ", "2", " ", "p", "r", "i", "n", "t", " ", "3", ";">>,
           <<"c", "l", "a", "s", "s">>,
           <<"f", "u", "n", ";">>,
           <<"i", "f">>,
           <<"1", ";", " ", "w", "h", "i", "l", "e">>,
           <<"r", "e", "t", "u", "r", "n", ";">>,
           <<"p", "r", "i", "n", "t", " ", "t", "h", "i", "s", ";">>,
           <<"s", "u", "p", "e", "r">>,
           <<"1", " ", "a", "n", "d", " ", "2", ";">>,
           <<"1", " ", "o", "r", " ", "2", ";">>,
           <<"e", "l", "s", "e", ";">>,
           <<"v", "a", "r", " ", "i", "f", ";">>,
           <<"v", "a", "r", " ", "x", " ", "=", " ", "f", "o", "r", ";">>,
           <<"(", "e", "l", "s", "e", ")">>,
           <<"o", "r", "x", ";">>,
           <<"\"", "i", "f", "\"", ";">>}
        RECURSIVE Seqs(_)
        Seqs(n) ==
            IF n = 0 THEN {<<>>}
            ELSE LET shorter == Seqs(n - 1)
                 IN  shorter \cup {s \o m : s \in shorter, m \in Menu}
        Many == [i \in 1..(2 * STACK_MAX) |-> IF i % 2 = 1 THEN "1" ELSE ";"]
        Infix == {<<"+">>, <<"-">>, <<"*">>, <<"/">>, <<"=", "=">>, <<"!", "=">>,
                  <<">">>, <<"<">>, <<">", "=">>, <<"<", "=">>}
        Binary == {<<"1">> \o o \o <<"2", ";">> : o \in Infix}
                  \cup {<<"1">> \o o \o <<"2">> \o o2 \o <<"3", ";">> :
                           o \in Infix, o2 \in Infix}
    IN  Seqs(MaxDecls) \cup Single \cup Binary
        \cup {Many \o <<"v", "a", "r", " ", "x", ";", "p", "r", "i", "n", "t", " ", "x", ";">>,
              Many \o <<"\"", "a", "\"", ";">>}

\* The compiler of the `comp` variable, with the heap it borrows.
Compiler == [f \in (DOMAIN comp \ {"state"}) \cup {"gc"} |->
                IF f = "gc" THEN gc ELSE comp[f]]

\* `comp` for compiler c in state st.
CompState(c, st) == [f \in (DOMAIN c \ {"gc"}) \cup {"state"} |->
                        IF f = "state" THEN st ELSE c[f]]

\* compile(&source, &mut gc) up to its loop, for a source.
CompileInit ==
    /\ TableInit /\ RleInit /\ refLog = <<>> /\ addLog = <<>> /\ allocLog = {}
    /\ gc = GCNew
    /\ chunk = ChunkNew
    /\ \E src \in Sources : comp = CompState(CompilerNew(src, GCNew), "Compiling")
    /\ stmtEnds = {}
    /\ vm = [VMNew EXCEPT !.result = [state |-> "NotConstructed"]]
    /\ bound = <<>>

\* while !compiler.match(Eof) { compiler.declaration(); }: one iteration
CompileDeclaration ==
    /\ comp.state = "Compiling"
    /\ comp.current.kind # "Eof"
    /\ LET declared(c) ==
             /\ comp' = CompState(c, IF c.panicked THEN "Panic" ELSE "Compiling")
             /\ gc' = c.gc
             /\ stmtEnds' = stmtEnds \cup {Len(c.current_chunk.code)}
       IN  declared(declaration(Compiler))
    /\ UNCHANGED <<tableVars, rleVars, allocLog, chunkVars, vmVars>>

\* The loop ends on Eof; consume(Eof); Ok(compiler.end()) or
\* Err(CompileError(errors)); on Ok the VM is made over the chunk.
CompileEnd ==
    /\ comp.state = "Compiling"
    /\ comp.current.kind = "Eof"
    /\ LET end(c) == emit_opcode(c, "Return").current_chunk
           ended(c) ==
             IF Len(c.errors) = 0
             THEN /\ comp' = CompState(c, "Ok")
                  /\ chunk' = end(c)
                  /\ vm' = VMNew
             ELSE /\ comp' = CompState(c, "CompileError")
                  /\ UNCHANGED <<chunk, vm>>
       IN  ended(consume(advance(Compiler), "Eof", <<"Expect end of expression.">>))
    /\ UNCHANGED <<tableVars, rleVars, gcVars, refLog, addLog, bound, stmtEnds>>

CompileNext == CompileDeclaration \/ CompileEnd \/ VMCompiledNext

RECURSIVE HeapListFrom(_, _, _)
\* The cells reached from pointer p along next, as Drop for GC walks them;
\* the walk is cut after n cells (a cycle would never end).
HeapListFrom(g, p, n) ==
    IF p = 0 \/ n = 0 THEN <<>>
    ELSE <<p>> \o HeapListFrom(g, g.objs[p].next, n - 1)

HeapList(g) == HeapListFrom(g, g.refs, Len(g.objs) + 1)

(***************************************************************************)
(* Scanner harness: scan calls on one Scanner, as the tests of scanner.rs  *)
(* make them.  comp holds the source, the scanner, the token of the last   *)
(* call and two counts of the calls so far.                                *)
(***************************************************************************)
MaxEofScans == 2    \* scan calls made after the one that returned Eof

\* The sources scanned: those compiled, and texts for the scanner alone.
ScanSources ==
    Sources \cup
    {<<" ">>,
     <<"/", "/", " ", "c">>,
     <<"\r", "\n", "\t", " ", "1">>,
     <<"1", ".", "5", ".", "2">>,
     <<"a", "_", "1", " ", "B", "2">>,
     <<"!", "=", " ", "=", "=", " ", "<", "=", " ", ">", "=", " ", "!", " ", "=", " ", "<", " ", ">">>,
     <<"/", " ", "/">>,
     <<"{", "}", ",", ".", "-", "+", "*">>,
     <<"n", "i", "l", " ", "t", "r", "u", "e", " ", "f", "a", "l", "s", "e">>,
     <<"EACUTE">>,
     <<"EACUTE", "1">>,
     <<"EACUTE", " ", "1", ";">>,
     <<"\"", "EACUTE", "\"", ";">>,
     <<"a", " ", "EACUTE">>,
     <<"1", " ", "EACUTE", " ", "o", "r">>,
     <<"EACUTE", "EACUTE", ";">>}

ScanInit ==
    /\ TableInit /\ RleInit /\ GCInit /\ ChunkInit /\ vm = VMNew /\ bound = <<>>
    /\ stmtEnds = {}
    /\ \E src \in ScanSources :
          comp = [state |-> "Scanning", source |-> src, scanner |-> ScannerNew,
                  token |-> [kind |-> "None"], tokens |-> 0, eofs |-> 0]

\* let result = scanner.scan()
ScanNext ==
    /\ comp.state = "Scanning"
    /\ comp.token.kind # "Panic"
    /\ comp.eofs <= MaxEofScans
    /\ LET returned(r) ==
               comp' = [comp EXCEPT
                          !.scanner = r.sc,
                          !.token = r.token,
                          !.tokens = IF r.token.kind \in {"Eof", "Panic"} THEN @ ELSE @ + 1,
                          !.eofs = IF r.token.kind = "Eof" THEN @ + 1 ELSE @]
       IN  returned(scan(comp.source, comp.scanner))
    /\ UNCHANGED <<tableVars, rleVars, gcVars, chunkVars, vmVars, stmtEnds>>

(***************************************************************************)
(* Specifications                                                          *)
(***************************************************************************)
Init ==
    /\ TableInit /\ RleInit /\ GCInit /\ ChunkInit /\ vm = VMNew /\ bound = <<>>
    /\ comp = [state |-> "Idle"] /\ stmtEnds = {}

SpecTable == Init /\ [][TableNext]_vars
SpecGC == Init /\ [][GCNext]_vars
SpecChunk == Init /\ [][ChunkNext]_vars
SpecConsts == Init /\ [][ConstsNext]_vars
SpecVM == VMInit /\ [][VMNext]_vars
SpecCompile == CompileInit /\ [][CompileNext]_vars
SpecScan == ScanInit /\ [][ScanNext]_vars
SpecRle == Init /\ [][RleHarnessNext]_vars

(***************************************************************************)
(* Claims                                                                  *)
(***************************************************************************)
\* C1: the Table is a reference map.  After any sequence of set and delete
\* calls (growth included), get(k) returns the value of the last set(k, .)
\* not followed by delete(k), and None for a key never set or last deleted.
C1_TableRefinesMap ==
    \A k \in Keys :
        TableGet(table, k, KeyMem) =
            IF refmap[k] = Absent THEN None ELSE Some(refmap[k])

\* A grown table that holds a tombstone, with the active key 1 deleted and
\* the colliding key 2 present.
C1_Witness ==
    /\ table.cap = 16
    /\ \E i \in DOMAIN table.entries : table.entries[i].kind = "Tombstone"
    /\ refmap[1] = Absent
    /\ refmap[2] = MaxVal
    /\ TableGet(table, 2, KeyMem) = Some(MaxVal)

\* C2: string interning.  Over all alloc_string calls so far, equal content
\* got the identical handle and different content got different handles, and
\* the heap list holds as many objects as distinct contents were passed.
C2_Interning ==
    /\ \A a, b \in allocLog : (a[1] = b[1]) <=> (a[2] = b[2])
    /\ Len(HeapList(gc)) = Cardinality({a[1] : a \in allocLog})
    /\ \A a \in allocLog : alloc_string(gc, a[1]) = [gc |-> gc, ref |-> a[2]]

\* Every content has been interned, the interner table has grown, and a
\* repeated call returns the handle of the first.
C2_Witness ==
    /\ Cardinality(allocLog) = NumContents + NumPrefill
    /\ gc.strings.cap = 16
    /\ \E a \in allocLog : a[1] = <<"k", "6">> /\ alloc_string(gc, a[1]).ref = a[2]

\* C6: in every Chunk state reached by write_byte, write_opcode, write_short
\* and ref_const calls the logical length of the line index (the sum of the
\* run lengths) equals the length of code, and no call shrinks either: the
\* old code stays a prefix of the new.
C6_LinesMatchCode ==
    /\ [](RleLen(chunk.lines) = Len(chunk.code))
    /\ [][/\ Len(chunk'.code) >= Len(chunk.code)
          /\ SubSeq(chunk'.code, 1, Len(chunk.code)) = chunk.code
          /\ RleLen(chunk'.lines) >= RleLen(chunk.lines)]_vars

\* A long reference has been written after an opcode on another line.
C6_Witness ==
    /\ Len(chunk.code) > MaxCode
    /\ Len(chunk.lines.data) = 2
    /\ RleLen(chunk.lines) = Len(chunk.code)

C8_ConstRoundTrip ==
    \A k \in 1..Len(addLog) :
        /\ addLog[k].index = k - 1
        /\ get_constant(chunk, k - 1).some
        /\ are_equal(get_constant(chunk, k - 1).value, addLog[k].value)

\* An interned string was added as a constant; get_constant returns the very
\* handle that was added, and are_equal finds the two unequal.
C8_Witness ==
    \E k \in 1..Len(addLog) :
        /\ Len(addLog) = MaxConsts
        /\ addLog[k].value.kind = "Object"
        /\ get_constant(chunk, k - 1) = Some(addLog[k].value)
        /\ ~are_equal(get_constant(chunk, k - 1).value, addLog[k].value)

\* C3: when Get or GetLong executes for a name constant whose content n has
\* been defined by an earlier DefineGlobal or DefineGlobalLong (through
\* whichever constant-pool entry), it pushes the value that the latest such
\* definition took from the top of the stack.
C3_GlobalsByContent ==
    [][\A op \in {"Get", "GetLong"} :
          (/\ Decoded(op)
           /\ Operand(op).ok
           /\ Operand(op).value.some
           /\ Operand(op).value.value.kind = "Object"
           /\ vm.stack_top < STACK_MAX)
          => LET n == HeapStrings(gc)[Operand(op).value.value.ptr].value
             IN  n \in DOMAIN bound =>
                   /\ vm'.result.state = "Running"
                   /\ vm'.ip = Operand(op).ip
                   /\ vm'.stack_top = vm.stack_top + 1
                   /\ vm'.stack[vm'.stack_top] = bound[n]]_vars

\* x was defined as 1 and then as true, and a Get through a third constant
\* entry of the same content has pushed true.
C3_Witness ==
    /\ vm.result.state = "Running"
    /\ Len(chunk.constants) = 4
    /\ chunk.constants[1] = Number(Frac(1, 1))
    /\ chunk.constants[2] = chunk.constants[4]
    /\ vm.ip = 9
    /\ chunk.code[8] = OpByte("Get") /\ chunk.code[9] = 3
    /\ bound = (<<"x">> :> Boolean(TRUE))
    /\ vm.stack_top = 1
    /\ vm.stack[1] = Boolean(TRUE)

\* C5: stack_top stays within 0..STACK_MAX; stack_push at STACK_MAX returns
\* the "Stack overflow" error and stack_pop at 0 the "Stack underflow"
\* error, both leaving the VM as it was; below STACK_MAX a push succeeds; and
\* a run that ended with either error stands at that stack_top.
C5_StackBounds ==
    /\ vm.stack_top \in 0..STACK_MAX
    /\ \A value \in {Nil, Boolean(TRUE)} :
          LET p == stack_push(vm, value)
          IN  IF vm.stack_top = STACK_MAX
              THEN ~p.ok /\ p.err = RuntimeError("Stack overflow", <<>>) /\ p.vm = vm
              ELSE /\ p.ok
                   /\ p.vm.stack_top = vm.stack_top + 1
                   /\ p.vm.stack[vm.stack_top + 1] = value
    /\ LET q == stack_pop(vm)
       IN  IF vm.stack_top = 0
           THEN ~q.ok /\ q.err = RuntimeError("Stack underflow", <<>>) /\ q.vm = vm
           ELSE q.ok /\ q.value = vm.stack[vm.stack_top] /\ q.vm.stack_top = vm.stack_top - 1
    /\ vm.result = RuntimeError("Stack overflow", <<>>) => vm.stack_top = STACK_MAX
    /\ vm.result = RuntimeError("Stack underflow", <<>>) => vm.stack_top = 0

\* 256 constants were pushed and the 257th push ended the run.
C5_Witness ==
    /\ vm.result = RuntimeError("Stack overflow", <<>>)
    /\ vm.stack_top = STACK_MAX
    /\ vm.stack[STACK_MAX] = Number(Frac(STACK_MAX - 1, 1))
    /\ Len(chunk.constants) = STACK_MAX + 1

\* C9: when Less or Greater executes over two operands that are not both
\* Numbers, the run ends with a RuntimeError.
C9_CompareNeedsNumbers ==
    [][\A op \in {"Less", "Greater"} :
          (/\ Decoded(op)
           /\ vm.stack_top >= 2
           /\ ~(/\ vm.stack[vm.stack_top].kind = "Number"
                /\ vm.stack[vm.stack_top - 1].kind = "Number"))
          => vm'.result.state = "RuntimeError"]_vars

\* Nil and the string "a" were pushed, Less has executed, and the run goes
\* on with true on the stack.
C9_Witness ==
    /\ chunk.code = <<OpByte("Nil"), OpByte("Constant"), 0, OpByte("Less")>>
    /\ chunk.constants = <<Object(1)>>
    /\ vm.ip = 4
    /\ vm.result.state = "Running"
    /\ vm.stack_top = 1
    /\ vm.stack[1] = Boolean(TRUE)

\* C10: when Equal executes over two Objects it pushes Boolean(true) if the
\* two handles are identical and Boolean(false) if they are not.
C10_EqualObjects ==
    [][(/\ Decoded("Equal")
        /\ vm.stack_top >= 2
        /\ vm.stack[vm.stack_top].kind = "Object"
        /\ vm.stack[vm.stack_top - 1].kind = "Object")
       => /\ vm'.stack_top = vm.stack_top - 1
          /\ vm'.stack[vm'.stack_top] =
                Boolean(vm.stack[vm.stack_top].ptr = vm.stack[vm.stack_top - 1].ptr)]_vars

\* The string "a" was pushed twice, from two constants that hold the same
\* handle, Equal has executed, and false is on the stack.
C10_Witness ==
    /\ chunk.code = <<OpByte("Constant"), 0, OpByte("Constant"), 1, OpByte("Equal")>>
    /\ chunk.constants = <<Object(1), Object(1)>>
    /\ vm.ip = 5
    /\ vm.result.state = "Running"
    /\ vm.stack_top = 1
    /\ vm.stack[1] = Boolean(FALSE)
    /\ vm.stack[2] = Object(1)

\* C4: for every source compile accepts, the run of the produced chunk on a
\* fresh VM has an empty value stack whenever it stands at the end of a
\* complete declaration, and when it returns Ok (no runtime error occurred)
\* the final Return found the stack empty and the result is Nil.
C4_StatementsLeaveStackEmpty ==
    comp.state = "Ok" =>
        /\ (vm.result.state = "Running" /\ vm.ip \in stmtEnds) => vm.stack_top = 0
        /\ vm.result.state = "Ok" =>
              /\ vm.result.value = Nil
              /\ vm.stack_top = 0
              /\ vm.ip = Len(chunk.code)

\* An accepted source of three declarations, one of them printing, has run
\* to the end.
C4_Witness ==
    /\ comp.state = "Ok"
    /\ Cardinality(stmtEnds) = 3
    /\ Len(vm.out) = 1
    /\ vm.result = [state |-> "Ok", value |-> Nil]
    /\ vm.ip = Len(chunk.code)
    /\ vm.ip - 1 \in stmtEnds

\* C11: Add over operands that are neither two Numbers nor two Strings,
\* Subtract, Multiply or Divide over operands that are not both Numbers, and
\* Negate of a value that is not a Number end the run with the RuntimeError
\* "Invalid type for <operation>: A B" ("Invalid type for negation: A"), A the
\* display form of the operand pushed first and B of the one pushed second,
\* and push nothing.
C11_ArithmeticTypeErrors ==
    [][LET second == vm.stack[vm.stack_top]
           first == vm.stack[vm.stack_top - 1]
           mem == HeapStrings(gc)
           word(op) == CASE op = "Add" -> "Invalid type for addition: {} {}"
                         [] op = "Subtract" -> "Invalid type for subtraction: {} {}"
                         [] op = "Multiply" -> "Invalid type for multiplication: {} {}"
                         [] op = "Divide" -> "Invalid type for division: {} {}"
       IN  /\ \A op \in {"Add", "Subtract", "Multiply", "Divide"} :
                (/\ Decoded(op)
                 /\ vm.stack_top >= 2
                 /\ ~(first.kind = "Number" /\ second.kind = "Number")
                 /\ ~(op = "Add" /\ first.kind = "Object" /\ second.kind = "Object"))
                => /\ vm'.result = [state |-> "RuntimeError", fmt |-> word(op),
                                    args |-> <<Display(first, mem), Display(second, mem)>>]
                   /\ vm'.stack_top = vm.stack_top - 2
           /\ (/\ Decoded("Negate")
               /\ vm.stack_top >= 1
               /\ second.kind # "Number")
              => /\ vm'.result = [state |-> "RuntimeError",
                                  fmt |-> "Invalid type for negation: {}",
                                  args |-> <<Display(second, mem)>>]
                 /\ vm'.stack_top = vm.stack_top - 1]_vars

\* The number 1 and then nil were pushed, Add has executed, and the run has
\* ended with "Invalid type for addition: 1 nil" and an empty stack.
C11_Witness ==
    /\ chunk.code = <<OpByte("Constant"), 0, OpByte("Nil"), OpByte("Add")>>
    /\ chunk.constants = <<Number(<<1, 1>>)>>
    /\ vm.ip = 4
    /\ vm.stack_top = 0
    /\ vm.result = [state |-> "RuntimeError", fmt |-> "Invalid type for addition: {} {}",
                    args |-> <<<<"1">>, <<"n", "i", "l">>>>]

\* C12: Add over two Strings pushes the interned handle of their
\* concatenation, the content pushed first followed by the content pushed
\* second: every later interning of that content returns the handle pushed,
\* and when a heap object of that content exists already it is the one
\* pushed and no heap object is allocated.
C12_AddInternsConcatenation ==
    [][LET second == vm.stack[vm.stack_top]
           first == vm.stack[vm.stack_top - 1]
           mem == HeapStrings(gc)
           text == mem[first.ptr].value \o mem[second.ptr].value
           held == {p \in DOMAIN gc.objs : gc.objs[p].value.value = text}
           pushed == vm'.stack[vm'.stack_top]
       IN  (/\ Decoded("Add")
            /\ vm.stack_top >= 2
            /\ first.kind = "Object"
            /\ second.kind = "Object")
           => /\ vm'.result.state = "Running"
              /\ vm'.stack_top = vm.stack_top - 1
              /\ pushed.kind = "Object"
              /\ gc'.objs[pushed.ptr].value.value = text
              /\ alloc_string(gc', text) = [gc |-> gc', ref |-> pushed.ptr]
              /\ held # {} => (pushed.ptr \in held /\ gc'.objs = gc.objs)
              /\ held = {} => Len(gc'.objs) = Len(gc.objs) + 1]_vars

\* The source "ab"; "a"+"b"; has run up to its Add: the handle pushed is the
\* one the compiler interned for the literal "ab", and the heap still holds
\* the three strings of the source.
C12_Witness ==
    /\ comp.state = "Ok"
    /\ Len(chunk.constants) = 3
    /\ chunk.constants[1] = Object(1)
    /\ gc.objs[1].value.value = <<"a", "b">>
    /\ chunk.code[8] = OpByte("Add")
    /\ vm.ip = 8
    /\ vm.stack_top = 1
    /\ vm.stack[1] = Object(1)
    /\ Len(gc.objs) = 3

\* C13: when Get or GetLong executes for a name that has no binding in the
\* globals table, the run ends with the RuntimeError whose message is
\* "Undefined variable: " followed by the bare name, and nothing is pushed.
C13_UndefinedVariableMessage ==
    [][\A op \in {"Get", "GetLong"} :
          (/\ Decoded(op)
           /\ Operand(op).ok
           /\ Operand(op).value.some
           /\ Operand(op).value.value.kind = "Object")
          => LET n == HeapStrings(gc)[Operand(op).value.value.ptr].value
             IN  n \notin DOMAIN bound =>
                   /\ vm'.result = [state |-> "RuntimeError",
                                    fmt |-> "Undefined variable: {}",
                                    args |-> <<n>>]
                   /\ vm'.stack_top = vm.stack_top]_vars

\* Get of the name x has executed with no global defined: the run has ended
\* with the message argument "x" in double quotes, and nothing was pushed.
C13_Witness ==
    /\ chunk.code = <<OpByte("Get"), 0>>
    /\ chunk.constants = <<Object(1)>>
    /\ gc.objs[1].value.value = <<"x">>
    /\ bound = <<>>
    /\ vm.stack_top = 0
    /\ vm.result = [state |-> "RuntimeError", fmt |-> "Undefined variable: {}",
                    args |-> <<<<"\"", "x", "\"">>>>]

\* C14: compile on the empty source, whose token stream is the Eof token
\* alone, ends with CompileError and never with a Chunk.
C14_EmptySourceIsCompileError ==
    (comp.state \in {"Ok", "CompileError"} /\ comp.source = <<>>)
        => comp.state = "CompileError"

\* compile has returned for the empty source: no error was recorded and the
\* result is the Chunk holding the single Return byte.
C14_Witness ==
    /\ comp.state = "Ok"
    /\ comp.source = <<>>
    /\ comp.previous.kind = "Eof"
    /\ comp.errors = <<>>
    /\ chunk.code = <<OpByte("Return")>>
    /\ chunk.constants = <<>>

\* C15: compile returns CompileError, carrying the error list, exactly when
\* at least one parser error was recorded during the compilation (the list
\* only grows); otherwise it returns a Chunk whose last byte is Return, and
\* no instruction before that one is a Return.
C15_CompileResult ==
    [][comp.state = "Compiling" =>
         /\ comp'.state \in {"Compiling", "Ok", "CompileError"}
         /\ SubSeq(comp'.errors, 1, Len(comp.errors)) = comp.errors
         /\ Len(comp'.errors) >= Len(comp.errors)
         /\ comp'.state # "Compiling" =>
                (comp'.state = "CompileError" <=> Len(comp'.errors) >= 1)
         /\ comp'.state = "Ok" =>
                LET code == chunk'.code
                IN  /\ Len(code) >= 1
                    /\ code[Len(code)] = OpByte("Return")
                    /\ Len(code) - 1 \in disassemble_chunk(chunk')
                    /\ \A o \in disassemble_chunk(chunk') :
                          code[o + 1] = OpByte("Return") => o = Len(code) - 1]_vars

\* compile has returned the Chunk of `1;`: the operand of Constant is the
\* byte 0, the byte of Return, at an offset that is not an instruction's.
C15_Witness ==
    /\ comp.state = "Ok"
    /\ comp.errors = <<>>
    /\ chunk.code = <<OpByte("Constant"), 0, OpByte("Pop"), OpByte("Return")>>
    /\ OpByte("Return") = 0
    /\ disassemble_chunk(chunk) = {0, 2, 3}

\* C16: once an error is recorded, no other error is appended to the error
\* list before synchronize next resets the panic flag: between two recorded
\* errors there is a reset, an error is recorded exactly when no error has
\* occurred since the last reset (or since the start), and the error list
\* is the recorded errors in their order.
C16_PanicModeSuppression ==
    comp.state = "Compiling" =>
        LET E == comp.events
            IsError(i) == E[i].ev = "error"
            ResetIn(i, j) == \E k \in (i + 1)..(j - 1) : E[k].ev = "reset"
        IN  /\ \A i, j \in DOMAIN E :
                  (i < j /\ IsError(i) /\ IsError(j) /\ E[i].recorded /\ E[j].recorded)
                      => ResetIn(i, j)
            /\ \A j \in DOMAIN E :
                  IsError(j) =>
                      (E[j].recorded <=>
                          \A i \in 1..(j - 1) : IsError(i) => ResetIn(i, j))
            /\ LET rec == SelectSeq(E, LAMBDA e : e.ev = "error" /\ e.recorded)
               IN  comp.errors =
                       [i \in 1..Len(rec) |->
                           [token |-> rec[i].token, message |-> rec[i].message]]

\* `print ;var 1;` after its two declarations: the first recorded an error
\* and dropped the one that followed, synchronize reset the flag, and the
\* error of the second declaration was recorded.
C16_Witness ==
    /\ comp.state = "Compiling"
    /\ Len(comp.errors) = 2
    /\ comp.errors[1].message = <<"Expected expression.">>
    /\ \E i, j, k, l \in DOMAIN comp.events :
          /\ i < j /\ j < k /\ k < l
          /\ comp.events[i].ev = "error" /\ comp.events[i].recorded
          /\ comp.events[j].ev = "error" /\ ~comp.events[j].recorded
          /\ comp.events[k].ev = "reset"
          /\ comp.events[l].ev = "error" /\ comp.events[l].recorded

\* C17: whenever synchronize returns, and so whenever declaration returns,
\* panic mode is off, so that in a declaration that follows another the
\* first error that occurs is recorded.
C17_SynchronizeClearsPanic ==
    comp.state = "Compiling" =>
        LET E == comp.events
            Decl(i) == E[i].ev = "declaration"
        IN  /\ \A i \in DOMAIN E : E[i].ev = "synchronized" => ~E[i].panic_mode
            /\ stmtEnds # {} => ~comp.panic_mode
            /\ \A d, j \in DOMAIN E :
                  (/\ d < j
                   /\ Decl(d)
                   /\ \E b \in 1..(d - 1) : Decl(b)
                   /\ E[j].ev = "error"
                   /\ \A k \in (d + 1)..(j - 1) : E[k].ev # "error" /\ ~Decl(k))
                  => E[j].recorded

\* `1 2 @;3 3;` after its two declarations: synchronize, skipping the tokens
\* after the first error, met the Error token of `@`, whose report set the
\* flag again, and returned after `;` with the flag set; the first error of
\* the declaration that followed was dropped.
C17_Witness ==
    /\ comp.state = "Compiling"
    /\ comp.current.kind = "Eof"
    /\ Len(comp.errors) = 2
    /\ comp.errors[2].message = <<"Unexpected character.">>
    /\ \E i, d, j \in DOMAIN comp.events :
          /\ i < d /\ d < j
          /\ comp.events[i] = [ev |-> "synchronized", current |-> "Number",
                               previous |-> "Semicolon", panic_mode |-> TRUE]
          /\ comp.events[d].ev = "declaration"
          /\ comp.events[j].ev = "error" /\ ~comp.events[j].recorded
          /\ comp.events[j].message = <<"Expected ';' after value.">>

\* C18: when synchronize returns, the current token is Eof, or the previous
\* token is `;`, or the current token is one of class, fun, var, for, if,
\* while, print, return; and at no token it advanced past did one of these
\* three hold.  After a declaration that ended in synchronize the parser
\* stands at the tokens where synchronize returned.
C18_SynchronizationPoint ==
    comp.state = "Compiling" =>
        LET E == comp.events
            Point(e) ==
                \/ e.current = "Eof"
                \/ e.previous = "Semicolon"
                \/ e.current \in {"Class", "Fun", "Var", "For", "If", "While",
                                  "Print", "Return"}
        IN  /\ \A i \in DOMAIN E :
                  /\ E[i].ev = "synchronized" => Point(E[i])
                  /\ E[i].ev = "skip" => ~Point(E[i])
            /\ (Len(E) > 0 /\ E[Len(E)].ev = "synchronized") =>
                  /\ E[Len(E)].current = comp.current.kind
                  /\ E[Len(E)].previous = comp.previous.kind

\* `1 2 print 3;` after its first declaration: synchronize advanced past
\* `2`, where none of the three held, and returned at `print`.
C18_Witness ==
    /\ comp.state = "Compiling"
    /\ comp.current.kind = "Print"
    /\ comp.previous.kind = "Number"
    /\ Len(comp.errors) = 1
    /\ Len(comp.events) = 5
    /\ comp.events[4] = [ev |-> "skip", current |-> "Number",
                         previous |-> "Number", panic_mode |-> FALSE]
    /\ comp.events[5] = [ev |-> "synchronized", current |-> "Print",
                         previous |-> "Number", panic_mode |-> FALSE]

\* C19: a source whose token stream holds one of the keyword tokens class,
\* fun, for, if, while, return, this, super, and, or, else, at whatever
\* position, is rejected: compile ends with CompileError, never with a Chunk.
C19_ReservedKeywordsRejected ==
    [][(/\ comp.state = "Compiling"
        /\ comp'.state # "Compiling"
        /\ token_kinds(comp.source) \cap
               {"Class", "Fun", "For", "If", "While", "Return", "This", "Super",
                "And", "Or", "Else"} # {})
       => comp'.state = "CompileError"]_vars

\* compile has returned for `1 and 2;`, whose third token is the keyword
\* `and`: the result is CompileError, the error reported at that token.
C19_Witness ==
    /\ comp.state = "CompileError"
    /\ comp.source = <<"1", " ", "a", "n", "d", " ", "2", ";">>
    /\ token_kinds(comp.source) = {"Number", "And", "Semicolon", "Eof"}
    /\ Len(comp.errors) = 1
    /\ comp.errors[1].token.kind = "And"
    /\ comp.errors[1].message = <<"Expected ';' after value.">>

\* C20: scanner progress, for every source.  Each scan call returns; one
\* that returns a token other than Eof has moved the scanner forward by at
\* least one character, so that the tokens before Eof are at most as many
\* as the characters of the source; and once Eof was returned, every later
\* call returns Eof and leaves the scanner where it was.
C20_ScannerProgress ==
    [][comp.state = "Scanning" =>
         /\ comp'.token.kind # "Panic"
         /\ comp'.token.kind # "Eof" =>
                comp'.scanner.current > comp.scanner.current
         /\ comp'.tokens <= Len(comp.source)
         /\ comp.token.kind = "Eof" =>
                /\ comp'.token.kind = "Eof"
                /\ comp'.scanner = comp.scanner]_vars

\* The source of the two characters U+00E9 and `1`: the first call returned
\* the Error token of the first character, and the second call, cutting the
\* lexeme of `1` at the byte offsets 1 and 2, panicked inside the two bytes
\* of U+00E9; no call has returned Eof.
C20_Witness ==
    /\ comp.state = "Scanning"
    /\ comp.source = <<"EACUTE", "1">>
    /\ comp.scanner = [start |-> 1, current |-> 2, line |-> 1]
    /\ ~str_slice(comp.source, 1, 2).ok
    /\ comp.token.kind = "Panic"
    /\ comp.tokens = 1
    /\ comp.eofs = 0

\* C21: tombstones never hide a present key.  In every table reached by set
\* and delete calls, growths included, for each key k that is present:
\* get(k) returns its value; set(k, v2) returns false and leaves k in one
\* Data bucket, which where the call does not grow the table is the bucket
\* that held k, every other bucket (the tombstones before it on the probe
\* chain too) being left as it was.  No two Data buckets hold one key.
C21_TombstonesHideNoKey ==
    LET DataAt(t, k) ==
            {i \in DOMAIN t.entries : t.entries[i].kind = "Data" /\ t.entries[i].key = k}
    IN  /\ \A k \in Keys : Cardinality(DataAt(table, k)) <= 1
        /\ \A k \in Keys :
              refmap[k] # Absent =>
                  /\ TableGet(table, k, KeyMem) = Some(refmap[k])
                  /\ \A v2 \in Vals :
                        LET r == TableSet(table, k, v2, KeyMem)
                        IN  /\ r.result = FALSE
                            /\ TableGet(r.table, k, KeyMem) = Some(v2)
                            /\ Cardinality(DataAt(r.table, k)) = 1
                            /\ r.table.cap = table.cap =>
                                  \E i \in DataAt(table, k) :
                                      r.table.entries =
                                          [table.entries EXCEPT ![i] = DataEntry(k, v2)]

\* Key 2 ("k6") is present in the bucket after its home bucket, which holds
\* the tombstone of the deleted key 1 ("y"); set(2, .) returns false and
\* writes the bucket of key 2, the tombstone staying where it is.
C21_Witness ==
    /\ table.cap = 8
    /\ refmap[1] = Absent
    /\ refmap[2] = 1
    /\ table.entries[HashMod(KeyMem[2].hash, 8)] = TombstoneEntry(1)
    /\ table.entries[(HashMod(KeyMem[2].hash, 8) + 1) % 8] = DataEntry(2, 1)
    /\ TableSet(table, 2, 2, KeyMem).result = FALSE
    /\ TableSet(table, 2, 2, KeyMem).table.entries =
           [table.entries EXCEPT ![(HashMod(KeyMem[2].hash, 8) + 1) % 8] = DataEntry(2, 2)]

\* C22: set(k, v) returns true exactly when k was not present just before
\* the call (never set, or deleted since its last set), the bucket written
\* being a reused tombstone or not; it returns false when k was present;
\* and in both cases get(k) returns v afterwards.
C22_SetReturnsAbsence ==
    \A k \in Keys, v \in Vals :
        LET r == TableSet(table, k, v, KeyMem)
        IN  /\ r.result = (refmap[k] = Absent)
            /\ TableGet(r.table, k, KeyMem) = Some(v)

\* Key 1 was set and deleted, its tombstone is in its home bucket and key 2
\* is present behind it: set(1, .) returns true and writes the tombstone's
\* bucket without counting a new entry.
C22_Witness ==
    /\ table.cap = 8
    /\ refmap[1] = Absent
    /\ refmap[2] # Absent
    /\ table.entries[HashMod(KeyMem[1].hash, 8)] = TombstoneEntry(1)
    /\ TableSet(table, 1, 2, KeyMem).result = TRUE
    /\ TableSet(table, 1, 2, KeyMem).table =
           [table EXCEPT !.entries[HashMod(KeyMem[1].hash, 8)] = DataEntry(1, 2)]

\* C23: delete(k) returns true exactly when k was present just before the
\* call; afterwards get(k) is absent and a second delete(k) returns false.
\* When it returns false (k absent, or nothing ever set) the table is left
\* as it was, bucket for bucket, so that get of every key returns what it
\* returned before.
C23_DeleteReturnsPresence ==
    \A k \in Keys :
        LET d == TableDelete(table, k, KeyMem)
        IN  /\ d.result = (refmap[k] # Absent)
            /\ TableGet(d.table, k, KeyMem) = None
            /\ TableDelete(d.table, k, KeyMem).result = FALSE
            /\ ~d.result => d.table = table

\* Key 1 ("y") is present and key 3, another ObjString of the same content,
\* is not: delete(3) returns false and changes nothing, delete(1) returns
\* true and leaves a tombstone.
C23_Witness ==
    /\ refmap[1] # Absent
    /\ refmap[3] = Absent
    /\ KeyMem[1] = KeyMem[3]
    /\ TableDelete(table, 3, KeyMem) = [table |-> table, result |-> FALSE]
    /\ TableDelete(table, 1, KeyMem).result = TRUE
    /\ TableDelete(table, 1, KeyMem).table.entries[HashMod(KeyMem[1].hash, table.cap)]
           = TombstoneEntry(1)

\* C24: executing Return ends the run with Ok: the result is the value on
\* top of the stack, which is popped, when the stack is not empty, and Nil
\* when the stack is empty; the underflow is not reported.
C24_ReturnResult ==
    [][Decoded("Return") =>
         /\ vm'.result.state = "Ok"
         /\ vm'.ip = vm.ip + 1
         /\ vm.stack_top > 0 =>
                /\ vm'.result.value = vm.stack[vm.stack_top]
                /\ vm'.stack_top = vm.stack_top - 1
         /\ vm.stack_top = 0 =>
                /\ vm'.result.value = Nil
                /\ vm'.stack_top = 0]_vars

\* Return has executed after Constant 1.2: the result is Ok(1.2), and the
\* value was popped.
C24_Witness ==
    /\ chunk.code = <<OpByte("Constant"), 0, OpByte("Return")>>
    /\ chunk.constants = <<Number(Frac(6, 5))>>
    /\ vm.ip = 3
    /\ vm.result = [state |-> "Ok", value |-> Number(Frac(6, 5))]
    /\ vm.stack_top = 0

\* C25: a run that comes to the end of the code without executing Return
\* ends with RuntimeError "Read byte out of bounds", ip staying at the end;
\* an instruction whose one-byte operand is missing ends with the same
\* error, and one whose two-byte operand is cut off with "Read short out of
\* bounds", ip staying just behind the opcode in both cases.
C25_ReadOutOfBounds ==
    [][vm.result.state = "Running" =>
         /\ vm.ip >= Len(chunk.code) =>
                /\ vm'.result = RuntimeError("Read byte out of bounds", <<>>)
                /\ vm'.ip = vm.ip
         /\ \A op \in {"Constant", "Get", "DefineGlobal"} :
                (Decoded(op) /\ vm.ip + 1 >= Len(chunk.code)) =>
                    /\ vm'.result = RuntimeError("Read byte out of bounds", <<>>)
                    /\ vm'.ip = vm.ip + 1
         /\ \A op \in {"ConstantLong", "GetLong", "DefineGlobalLong"} :
                (Decoded(op) /\ vm.ip + 2 >= Len(chunk.code)) =>
                    /\ vm'.result = RuntimeError("Read short out of bounds", <<>>)
                    /\ vm'.ip = vm.ip + 1
         /\ vm'.stack_top = vm.stack_top \/ vm.ip < Len(chunk.code)]_vars

\* GetLong was followed by one byte only: the run has ended with "Read
\* short out of bounds" and ip behind the opcode.
C25_Witness ==
    /\ chunk.code = <<OpByte("GetLong"), OpByte("Return")>>
    /\ vm.ip = 1
    /\ vm.stack_top = 0
    /\ vm.result = RuntimeError("Read short out of bounds", <<>>)

\* C26: a runtime error halts the run at once.  The instruction that yields
\* the RuntimeError writes nothing to the output and binds no global; and
\* once run has returned it, no instruction can execute: no step of the VM
\* is enabled, so ip, the output and the globals stay as they are.
C26_RuntimeErrorHalts ==
    /\ [](vm.result.state = "RuntimeError" => ~ENABLED VMNext)
    /\ [][(vm.result.state = "Running" /\ vm'.result.state = "RuntimeError") =>
             /\ vm'.out = vm.out
             /\ vm'.globals = vm.globals
             /\ bound' = bound
             /\ vm'.ip \in vm.ip..(vm.ip + 3)]_vars
    /\ [][vm.result.state = "RuntimeError" => (vm' = vm /\ bound' = bound)]_vars

\* `print x;` ahead of the definition of x: Get has ended the run with the
\* error; Print and DefineGlobal, behind ip, were not executed, nothing was
\* written and x is unbound.
C26_Witness ==
    /\ vm.result.state = "RuntimeError"
    /\ vm.result.fmt = "Undefined variable: {}"
    /\ vm.ip = 2
    /\ Len(chunk.code) = 7
    /\ chunk.code[3] = OpByte("Print")
    /\ chunk.code[6] = OpByte("DefineGlobal")
    /\ vm.out = <<>>
    /\ bound = <<>>
    /\ ~ENABLED VMNext

\* C27: the run-length index is observationally a dense array.  After any
\* sequence of n push calls, get(i) is the value of the (i+1)-th push for
\* every i < n and None for every i >= n; every stored run has count >= 1
\* and the counts sum to n.
C27_RleIsDenseArray ==
    /\ \A i \in 0..(MaxPush + 1) :
          RleGet(rle, i) = IF i < Len(pushLog) THEN Some(pushLog[i + 1]) ELSE None
    /\ \A n \in DOMAIN rle.data : rle.data[n].count >= 1
    /\ RleLen(rle) = Len(pushLog)

\* push 1, 1, 2, 1: three runs, the value 1 in two of them.
C27_Witness ==
    /\ pushLog = <<1, 1, 2, 1>>
    /\ rle.data = <<[value |-> 1, count |-> 2], [value |-> 2, count |-> 1],
                    [value |-> 1, count |-> 1]>>
    /\ RleGet(rle, 2) = Some(2)
    /\ RleGet(rle, 3) = Some(1)
    /\ RleGet(rle, 4) = None

\* C28 as stated: in every Chunk built by write_byte, write_opcode,
\* write_short and ref_const calls, get_line(i) is non-decreasing in the
\* byte offset i.
C28_LinesNonDecreasing ==
    \A i, j \in 0..(Len(chunk.code) - 1) :
        i < j => get_line(chunk, i).value <= get_line(chunk, j).value

\* C28, amended: get_line(i) is the line given to the append that wrote byte
\* i.  An append with line l gives l to every byte it writes and leaves the
\* line of every earlier byte; so the lines stay non-decreasing when the
\* line given is not below the line of the last byte, and only then.
C28_LineIsTheLineWritten ==
    [][LET n == Len(chunk.code)
           n2 == Len(chunk'.code)
           Sorted(c) == \A i, j \in 0..(Len(c.code) - 1) :
                           i < j => get_line(c, i).value <= get_line(c, j).value
           Appended(l) ==
               {write_byte(chunk, 255, l), write_opcode(chunk, "Return", l),
                write_short(chunk, 258, l)}
               \cup {ref_const(chunk, i, "Constant", "ConstantLong", l).chunk :
                        i \in {0, 255, 256, 65535}}
               \cup {ref_const(chunk, i, "Get", "GetLong", l).chunk :
                        i \in {0, 255, 256, 65535}}
       IN  /\ \A i \in 0..(n - 1) : get_line(chunk', i) = get_line(chunk, i)
           /\ get_line(chunk', n2) = None
           /\ \A l \in {1, 2} :
                 chunk' \in Appended(l) =>
                    \A i \in n..(n2 - 1) : get_line(chunk', i) = Some(l)
           /\ (n > 0 /\ n2 > n) =>
                 (Sorted(chunk') <=>
                     /\ Sorted(chunk)
                     /\ get_line(chunk, n - 1).value <= get_line(chunk', n).value)]_vars

\* write_byte on line 2, then a long reference on line 1: the three bytes
\* of the reference are on line 1, behind a byte on line 2.
C28_Witness ==
    /\ chunk.code = <<255, OpByte("ConstantLong"), 1, 0>>
    /\ get_line(chunk, 0) = Some(2)
    /\ \A i \in 1..3 : get_line(chunk, i) = Some(1)
    /\ get_line(chunk, 4) = None
    /\ chunk.lines.data = <<[value |-> 2, count |-> 1], [value |-> 1, count |-> 3]>>

\* C29: compiling a constant whose index is 65 536 or more ends in a fatal
\* error.  When emit_constant is called on a compiled chunk, it panics iff
\* the index of the new constant is at least 65 536; the panic leaves the
\* code as it was, so no instruction with a cut index is written, and
\* compile() is over without a Chunk.  Below that the reference written
\* holds the index itself, one byte up to 255 and two bytes from 256.
C29_TooManyConstantsIsFatal ==
    /\ [](comp.state = "Panic" => ~ENABLED ConstsNext)
    /\ [][LET i == Len(chunk.constants)
          IN  (i >= 255 /\ Len(chunk'.constants) = i + 1) =>
                 /\ (i >= 65536) <=> (comp'.state = "Panic")
                 /\ comp'.state = "Panic" => chunk'.code = chunk.code
                 /\ comp'.state # "Panic" =>
                       chunk'.code = chunk.code \o
                          (IF i <= 255
                           THEN <<OpByte("Constant"), i, OpByte("Pop")>>
                           ELSE <<OpByte("ConstantLong"), i \div 256, i % 256,
                                  OpByte("Pop")>>)]_vars

\* 65 536 statements `0;` are compiled, the last reference is ConstantLong
\* 255 255; the constant of the next statement has been added to the pool
\* and ref_const has panicked without writing.
C29_Witness ==
    /\ comp.state = "Panic"
    /\ Len(chunk.constants) = 65537
    /\ Len(chunk.code) = 261888
    /\ SubSeq(chunk.code, 261885, 261888) =
          <<OpByte("ConstantLong"), 255, 255, OpByte("Pop")>>
    /\ get_line(chunk, 261887) = Some(1)
    /\ get_line(chunk, 261888) = None

\* C30 as stated: the opcode bytes are Return 0 .. Pop 6, 7 reserved, Get 8,
\* GetLong 9, DefineGlobal 10, DefineGlobalLong 11, Equal 12, Greater 13,
\* Less 14, Add 15, Multiply 16, Divide 17, Not 18, Negate 19, Print 20, and
\* every other byte decodes to RuntimeError "Unknown opcode: N".
C30_OpcodeBytesAsListed ==
    [][LET b == Fetch.value
           listed == {<<"Return", 0>>, <<"Constant", 1>>, <<"ConstantLong", 2>>,
                    <<"Nil", 3>>, <<"True", 4>>, <<"False", 5>>, <<"Pop", 6>>,
                    <<"Get", 8>>, <<"GetLong", 9>>, <<"DefineGlobal", 10>>,
                    <<"DefineGlobalLong", 11>>, <<"Equal", 12>>,
                    <<"Greater", 13>>, <<"Less", 14>>, <<"Add", 15>>,
                    <<"Multiply", 16>>, <<"Divide", 17>>, <<"Not", 18>>,
                    <<"Negate", 19>>, <<"Print", 20>>}
       IN  (vm.result.state = "Running" /\ Fetch.ok) =>
              /\ \A e \in listed : Decoded(e[1]) <=> b = e[2]
              /\ (b = 7 \/ b > 20) <=>
                    vm'.result = RuntimeError("Unknown opcode: {}", <<Digits(b)>>)]_vars

\* C30, amended: the opcode bytes are Return 0, Constant 1, ConstantLong 2,
\* Nil 3, True 4, False 5, Pop 6, Get 7, GetLong 8, DefineGlobal 9,
\* DefineGlobalLong 10, Equal 11, Greater 12, Less 13, Add 14, Subtract 15,
\* Multiply 16, Divide 17, Not 18, Negate 19, Print 20; no byte below 21 is
\* reserved, and every byte above 20 ends the run with RuntimeError
\* "Unknown opcode: N", ip behind the byte.
C30_OpcodeBytes ==
    [][LET b == Fetch.value
           byte == {<<"Return", 0>>, <<"Constant", 1>>, <<"ConstantLong", 2>>,
                    <<"Nil", 3>>, <<"True", 4>>, <<"False", 5>>, <<"Pop", 6>>,
                    <<"Get", 7>>, <<"GetLong", 8>>, <<"DefineGlobal", 9>>,
                    <<"DefineGlobalLong", 10>>, <<"Equal", 11>>,
                    <<"Greater", 12>>, <<"Less", 13>>, <<"Add", 14>>,
                    <<"Subtract", 15>>, <<"Multiply", 16>>, <<"Divide", 17>>,
                    <<"Not", 18>>, <<"Negate", 19>>, <<"Print", 20>>}
       IN  (vm.result.state = "Running" /\ Fetch.ok) =>
              /\ \A e \in byte : Decoded(e[1]) <=> b = e[2]
              /\ \A e \in byte : OpByte(e[1]) = e[2]
              /\ (b > 20) <=> vm'.result = RuntimeError("Unknown opcode: {}", <<Digits(b)>>)
              /\ (b > 20) => vm'.ip = vm.ip + 1]_vars

\* Byte 15 has run as Subtract, over the number 1 and nil; and a chunk of
\* the one byte 7 would run as Get, which misses its operand.
C30_Witness ==
    /\ chunk.code = <<1, 0, 3, 15>>
    /\ chunk.constants = <<Number(<<1, 1>>)>>
    /\ vm.ip = 4
    /\ vm.result = [state |-> "RuntimeError", fmt |-> "Invalid type for subtraction: {} {}",
                    args |-> <<<<"1">>, <<"n", "i", "l">>>>]
    /\ OpFromU8(7) = Some("Get")
    /\ OpFromU8(21) = None

\* C31: for `a op b` the compiler emits the code of a, the code of b and
\* then the opcodes of op (+ Add, - Subtract, * Multiply, / Divide, == Equal,
\* != Equal Not, > Greater, < Less, >= Less Not, <= Greater Not).  In
\* `a op1 b op2 c` an op2 of higher precedence binds first (a b c op2 op1);
\* otherwise the operators associate to the left (a b op1 c op2).  The
\* operands are the literals 1, 2, 3, constants 0, 1, 2 of the pool; the
\* precedence levels are equality 1, comparison 2, term 3, factor 4.
C31_BinaryEmission ==
    [][LET ops == {<<<<"+">>, 3, <<"Add">>>>, <<<<"-">>, 3, <<"Subtract">>>>,
                   <<<<"*">>, 4, <<"Multiply">>>>, <<<<"/">>, 4, <<"Divide">>>>,
                   <<<<"=", "=">>, 1, <<"Equal">>>>,
                   <<<<"!", "=">>, 1, <<"Equal", "Not">>>>,
                   <<<<">">>, 2, <<"Greater">>>>, <<<<"<">>, 2, <<"Less">>>>,
                   <<<<">", "=">>, 2, <<"Less", "Not">>>>,
                   <<<<"<", "=">>, 2, <<"Greater", "Not">>>>}
           bytes(e) == [i \in 1..Len(e[3]) |-> OpByte(e[3][i])]
           K(i) == <<OpByte("Constant"), i>>
           tail == <<OpByte("Pop"), OpByte("Return")>>
       IN  (comp.state = "Compiling" /\ comp'.state = "Ok") =>
              /\ \A e \in ops :
                    comp.source = <<"1">> \o e[1] \o <<"2", ";">> =>
                       chunk'.code = K(0) \o K(1) \o bytes(e) \o tail
              /\ \A e \in ops, f \in ops :
                    comp.source = <<"1">> \o e[1] \o <<"2">> \o f[1] \o <<"3", ";">> =>
                       /\ chunk'.code =
                             IF f[2] > e[2]
                             THEN K(0) \o K(1) \o K(2) \o bytes(f) \o bytes(e) \o tail
                             ELSE K(0) \o K(1) \o bytes(e) \o K(2) \o bytes(f) \o tail
                       /\ chunk'.constants = <<Number(Frac(1, 1)), Number(Frac(2, 1)),
                                               Number(Frac(3, 1))>>]_vars

\* `1<=2*3;` is compiled: 1 2 3 Multiply Greater Not; and `1-2-3;` would
\* give 1 2 Subtract 3 Subtract.
C31_Witness ==
    /\ comp.state = "Ok"
    /\ comp.source = <<"1", "<", "=", "2", "*", "3", ";">>
    /\ vm.ip = 0
    /\ chunk.code = <<OpByte("Constant"), 0, OpByte("Constant"), 1, OpByte("Constant"), 2,
                      OpByte("Multiply"), OpByte("Greater"), OpByte("Not"),
                      OpByte("Pop"), OpByte("Return")>>

\* C32: a declaration `var NAME;` compiles to Nil and DefineGlobal with the
\* index of the NAME constant, `var NAME = expr;` to the code of expr and
\* that DefineGlobal.  The NAME constant, the interned handle of NAME, is
\* added to the pool first, ahead of every constant of expr; and each later
\* read of NAME adds one more pool entry with the same handle.  Stated for
\* every var declaration compile goes through without a call of error_at,
\* and by the whole chunk of `var x=1; print x+x*x; x-1;`.
C32_VarDeclarationEmission ==
    /\ [][LET before == comp.current_chunk
              after == comp'.current_chunk
              n == Len(before.constants)
              name == scan(comp.source, comp.scanner)
              next == scan(comp.source, name.sc).token
              define == IF n <= 255 THEN <<OpByte("DefineGlobal"), n>>
                        ELSE <<OpByte("DefineGlobalLong"), n \div 256, n % 256>>
              handle == alloc_string(gc', name.token.lexeme)
          IN  (/\ comp.state = "Compiling" /\ comp'.state = "Compiling"
               /\ comp.current.kind = "Var"
               /\ \A k \in (Len(comp.events) + 1)..Len(comp'.events) :
                     comp'.events[k].ev # "error") =>
                 /\ name.token.kind = "Identifier"
                 /\ Len(after.constants) > n
                 /\ SubSeq(after.constants, 1, n) = before.constants
                 /\ after.constants[n + 1] = Object(handle.ref)
                 /\ handle.gc = gc'
                 /\ HeapStrings(gc')[handle.ref].value = name.token.lexeme
                 /\ SubSeq(after.code, 1, Len(before.code)) = before.code
                 /\ SubSeq(after.code, Len(after.code) - Len(define) + 1, Len(after.code))
                       = define
                 /\ next.kind = "Semicolon" =>
                       /\ after.code = before.code \o <<OpByte("Nil")>> \o define
                       /\ Len(after.constants) = n + 1
                 /\ next.kind = "Equal" =>
                       Len(after.code) > Len(before.code) + Len(define)
                 /\ comp.source = <<"v", "a", "r", " ", "x", "=", "1", ";">> =>
                       /\ after.code = <<OpByte("Constant"), 1, OpByte("DefineGlobal"), 0>>
                       /\ after.constants = <<Object(handle.ref), Number(Frac(1, 1))>>
                 /\ comp.source = <<"v", "a", "r", " ", "y", "\n", "=", "\t", "x", " ", ";">> =>
                       /\ after.code = <<OpByte("Get"), 1, OpByte("DefineGlobal"), 0>>
                       /\ after.constants =
                             <<Object(handle.ref),
                               Object(alloc_string(gc', <<"x">>).ref)>>]_vars
    /\ [][LET h == Object(alloc_string(gc, <<"x">>).ref)
              one == Number(Frac(1, 1))
          IN  (/\ comp.state = "Compiling" /\ comp'.state = "Ok"
               /\ comp.source =
                     <<"v", "a", "r", " ", "x", "=", "1", ";", " ", "p", "r", "i", "n", "t",
                       " ", "x", "+", "x", "*", "x", ";", " ", "x", "-", "1", ";">>) =>
                 /\ chunk'.constants = <<h, one, h, h, h, h, one>>
                 /\ alloc_string(gc, <<"x">>).gc = gc
                 /\ chunk'.code =
                       <<OpByte("Constant"), 1, OpByte("DefineGlobal"), 0,
                         OpByte("Get"), 2, OpByte("Get"), 3, OpByte("Get"), 4,
                         OpByte("Multiply"), OpByte("Add"), OpByte("Print"),
                         OpByte("Get"), 5, OpByte("Constant"), 6, OpByte("Subtract"),
                         OpByte("Pop"), OpByte("Return")>>]_vars

\* After 256 statements `1;` the declaration `var x;` is compiled: Nil and
\* DefineGlobalLong 1 0, the name the constant 256 of the pool.
C32_Witness ==
    /\ comp.state = "Compiling"
    /\ Len(comp.current_chunk.constants) = 257
    /\ comp.current_chunk.constants[257] = Object(1)
    /\ HeapStrings(gc)[1].value = <<"x">>
    /\ SubSeq(comp.current_chunk.code, Len(comp.current_chunk.code) - 3,
              Len(comp.current_chunk.code))
          = <<OpByte("Nil"), OpByte("DefineGlobalLong"), 1, 0>>
    /\ comp.current.kind = "Print"
    /\ comp.errors = <<>>

\* C33: the capacity is 0 until the first set and 8 times a power of two
\* afterwards.  set grows the table, from 0 to 8 and otherwise to twice the
\* capacity, exactly when len + 1 > floor(0.75 * capacity); the array of a
\* growth holds no tombstone and every Data entry of the old array exactly
\* once, and its len is the number of its Data buckets.
C33_TableGrowth ==
    LET DataAt(t) == {i \in DOMAIN t.entries : t.entries[i].kind = "Data"}
        due == table.len + 1 > (3 * table.cap) \div 4
        grown == adjust_capacity(table, grow_capacity(table.cap), KeyMem)
    IN  /\ table.cap \in {0, 8, 16, 32, 64}
        /\ table.cap = 0 => table = TableNew
        /\ table.cap = 0 => due
        /\ \A k \in Keys, v \in Vals :
              LET r == TableSet(table, k, v, KeyMem).table
              IN  /\ r.cap = IF ~due THEN table.cap
                             ELSE IF table.cap = 0 THEN 8 ELSE 2 * table.cap
                  /\ due => \E i \in DOMAIN grown.entries :
                               r.entries = [grown.entries EXCEPT ![i] = DataEntry(k, v)]
        /\ due =>
              /\ \A i \in DOMAIN grown.entries : grown.entries[i].kind # "Tombstone"
              /\ \A i \in DataAt(table) :
                    Cardinality({j \in DataAt(grown) :
                                    grown.entries[j] = table.entries[i]}) = 1
              /\ Cardinality(DataAt(grown)) = Cardinality(DataAt(table))
              /\ grown.len = Cardinality(DataAt(grown))

\* The table has grown from 8 to 16 buckets with a tombstone among the six
\* used: five entries were copied, or four and the key set is the fifth.
C33_Witness ==
    /\ table.cap = 16
    /\ table.len = 5
    /\ Cardinality({i \in DOMAIN table.entries : table.entries[i].kind = "Data"}) = 5
    /\ \A i \in DOMAIN table.entries : table.entries[i].kind # "Tombstone"
    /\ \E k \in Keys : refmap[k] = Absent

\* C34: in every reachable Table state len is the number of buckets that
\* are not Empty, Data and Tombstone together, and len <= floor(0.75 *
\* capacity): a delete never decrements len and a set that reuses a
\* tombstone never increments it.  So a table with capacity > 0 has an
\* Empty bucket, and the probes of get_entry and find end for every key.
C34_ProbeTermination ==
    LET Used == {i \in DOMAIN table.entries : table.entries[i].kind # "Empty"}
        due == table.len + 1 > (3 * table.cap) \div 4
    IN  /\ table.len = Cardinality(Used)
        /\ table.len <= (3 * table.cap) \div 4
        /\ table.cap > 0 =>
              /\ \E i \in DOMAIN table.entries : table.entries[i].kind = "Empty"
              /\ \A k \in Keys :
                    /\ get_entry(table.entries, table.cap, k, KeyMem) \in 0..(table.cap - 1)
                    /\ "nohalt" \notin DOMAIN TableFind(table, KeyMem[k], KeyMem)
                    /\ TableDelete(table, k, KeyMem).table.len = table.len
                    /\ (/\ ~due
                        /\ table.entries[get_entry(table.entries, table.cap, k, KeyMem)].kind
                              = "Tombstone") =>
                          \A v \in Vals : TableSet(table, k, v, KeyMem).table.len = table.len

\* Six of eight buckets are used, two of them by tombstones, and the probe
\* for key 2 passes a tombstone before it ends.
C34_Witness ==
    /\ table.cap = 8
    /\ table.len = 6
    /\ Cardinality({i \in DOMAIN table.entries : table.entries[i].kind = "Tombstone"}) = 2
    /\ Cardinality({i \in DOMAIN table.entries : table.entries[i].kind = "Data"}) = 4
    /\ table.entries[HashMod(KeyMem[2].hash, 8)].kind = "Tombstone"
    /\ get_entry(table.entries, 8, 2, KeyMem) \in 0..7

\* C35: after any sequence of alloc_string calls the list that starts at
\* GC.refs ends at null (it has no cycle) and holds every object ever
\* allocated exactly once, the newest first; a call moves and unlinks no
\* existing object: every cell keeps its address, its value and its next.
\* Drop for GC walks this list and frees each cell it meets, so each object
\* is freed exactly once.
C35_HeapListIntegrity ==
    /\ [](LET freed == HeapList(gc)
              n == Len(gc.objs)
          IN  /\ Len(freed) = n
              /\ \A i \in 1..n : freed[i] = n + 1 - i
              /\ \A i, j \in 1..Len(freed) : freed[i] = freed[j] => i = j
              /\ {a[2] : a \in allocLog} = 1..n
              /\ \A p \in 1..n : gc.objs[p].next = p - 1)
    /\ [][/\ Len(gc'.objs) >= Len(gc.objs)
          /\ \A p \in DOMAIN gc.objs : gc'.objs[p] = gc.objs[p]
          /\ LET old == HeapList(gc)
                 new == HeapList(gc')
             IN  SubSeq(new, Len(new) - Len(old) + 1, Len(new)) = old]_vars

\* Three strings are interned: the list is 3, 2, 1 and ends at null.
C35_Witness ==
    /\ Len(gc.objs) = 3
    /\ gc.refs = 3
    /\ HeapList(gc) = <<3, 2, 1>>
    /\ gc.objs[1].next = 0
    /\ Cardinality(allocLog) = 3

C37_CompileTerminates ==
    /\ [](comp.scanner.start <= Len(comp.source))
    /\ [][LET place(c) == IF c.current.kind = "Eof" THEN Len(c.source) + 1
                          ELSE c.scanner.start
              new == (Len(comp.events) + 1)..Len(comp'.events)
          IN  comp.state = "Compiling" =>
                /\ comp'.source = comp.source
                /\ comp.current.kind = "Eof" => comp'.state \in {"Ok", "CompileError"}
                /\ comp.current.kind # "Eof" =>
                     /\ comp'.state \in {"Compiling", "Panic"}
                     /\ place(comp') > place(comp)
                /\ \A k \in new :
                     /\ comp'.events[k].ev = "skip" => comp'.events[k].current # "Eof"
                     /\ comp'.events[k].ev = "reset" =>
                          comp'.events[Len(comp'.events)].ev = "synchronized"]_vars

\* `1 2;@`: one declaration with a syntax error at `2`, whose synchronize
\* ran over the Error token of `@` to Eof; compile has returned the errors.
C37_Witness ==
    /\ comp.source = <<"1", " ", "2", ";", "@">>
    /\ comp.state = "CompileError"
    /\ comp.current.kind = "Eof"
    /\ Len(comp.errors) = 2
    /\ \E k \in DOMAIN comp.events :
          comp.events[k].ev = "synchronized" /\ comp.events[k].current = "Eof"

\* C38: the frame of the VM's instructions.  No instruction changes the
\* chunk.  The globals table changes only in DefineGlobal or
\* DefineGlobalLong, with a value on the stack, and the run goes on.  The
\* heap changes only in Add on two strings, which adds one object and
\* leaves the others as they were.  A DefineGlobal on an empty stack ends
\* the run and leaves the globals table as it was.
C38_InstructionFrame ==
    [][LET define == Decoded("DefineGlobal") \/ Decoded("DefineGlobalLong")
           strings == /\ vm.stack_top >= 2
                      /\ vm.stack[vm.stack_top].kind = "Object"
                      /\ vm.stack[vm.stack_top - 1].kind = "Object"
       IN  /\ chunk' = chunk
           /\ vm'.globals # vm.globals =>
                define /\ vm.stack_top > 0 /\ vm'.result.state = "Running"
           /\ gc' # gc =>
                /\ Decoded("Add") /\ strings
                /\ Len(gc'.objs) = Len(gc.objs) + 1
                /\ \A p \in DOMAIN gc.objs : gc'.objs[p] = gc.objs[p]
           /\ (define /\ vm.stack_top = 0) =>
                vm'.globals = vm.globals /\ vm'.result.state # "Running"]_vars

\* DefineGlobal of "x" on the empty stack: the run has ended with the
\* underflow, behind the operand, and no global is bound.
C38_Witness ==
    /\ chunk.code = <<OpByte("DefineGlobal"), 0>>
    /\ chunk.constants[1].kind = "Object"
    /\ vm.ip = 2
    /\ vm.result = RuntimeError("Stack underflow", <<>>)
    /\ vm.globals = TableNew
    /\ bound = <<>>

\* C39: no probe on an unallocated table.  In every reachable state the
\* table has no buckets (capacity 0, null pointer) only with len = 0, and
\* then get, find and delete return None, None and false by the test of len,
\* ahead of `hash % cap`; with len > 0 the capacity is 8 or more and the
\* probe of get and delete is no panic.  set has grown the table to 8
\* buckets or more when it probes, so its probe is no panic either.
C39_NoProbeOnUnallocated ==
    LET due == table.len + 1 > MaxLoad(table.cap)
        new_cap == IF due THEN grow_capacity(table.cap) ELSE table.cap
        probed == IF due THEN adjust_capacity(table, new_cap, KeyMem) ELSE table
    IN  /\ table.cap = 0 => table.len = 0 /\ table.entries = <<>>
        /\ table.cap # 0 => table.cap >= 8 /\ DOMAIN table.entries = 0..(table.cap - 1)
        /\ new_cap >= 8
        /\ probed.cap = new_cap
        /\ \A k \in Keys :
              /\ get_entry(probed.entries, probed.cap, k, KeyMem) \in 0..(probed.cap - 1)
              /\ table.len = 0 =>
                   /\ TableGet(table, k, KeyMem) = None
                   /\ TableFind(table, KeyMem[k], KeyMem) = None
                   /\ TableDelete(table, k, KeyMem) = [table |-> table, result |-> FALSE]
              /\ table.len # 0 =>
                   get_entry(table.entries, table.cap, k, KeyMem) \in 0..(table.cap - 1)

\* The first set on a new table: the table was grown from no buckets to 8
\* before the probe, and holds the one entry.
C39_Witness ==
    /\ table.cap = 8
    /\ table.len = 1
    /\ Cardinality({i \in DOMAIN table.entries : table.entries[i].kind = "Data"}) = 1
    /\ \A i \in DOMAIN table.entries : table.entries[i].kind # "Tombstone"

====
